---- MODULE Spec2Model ----
(***************************************************************************)
(* Model of facr-scraper (src/main.go): the two competition-match adapters *)
(* (public fotbal.cz pages, internal IS pages), the involvement filter and *)
(* identifier backfill, the logo resolver with its process-wide cache, and *)
(* the per-competition reconciliation in getClubInfo.                      *)
(*                                                                         *)
(* Text is modelled as a sequence of one-character strings, so that        *)
(* lower-casing, trimming, splitting and substring search are computed the *)
(* way the Go code computes them.  Identifiers are UUID tokens abbreviated *)
(* to two characters (a hex letter that has an upper-case form, a digit).  *)
(* A non-ASCII rune is written as one element, such as "y-acute".          *)
(***************************************************************************)
EXTENDS Integers, Sequences, FiniteSets, TLC

VARIABLES
    rowIn,      \* the markup row handed to an adapter's per-row callback
    clubCtx,    \* the club context (clubName, clubID) of the adapter call
    rowOut,     \* what the callback did with the row
    logoCache,  \* var logoCache = map[string]string{} (main.go:331)
    gor,        \* per goroutine: the getLogo call it is executing
    mapAcc,     \* per goroutine: the map access it is in the middle of
    resolved,   \* keys for which a name-based resolution has returned
    fatal,      \* the Go runtime has thrown on a concurrent map access
    req         \* the getClubInfo request being served

vars == <<rowIn, clubCtx, rowOut, logoCache, gor, mapAcc, resolved, fatal, req>>

(***************************************************************************)
(* Bounds of the model.                                                    *)
(***************************************************************************)
NumNames == 5        \* team names of the pool that rows are built from
NumClubNames == 4    \* club names of the pool that contexts are built from
MaxCalls == 3        \* getLogo calls the goroutines make in total
NumPayloads == 3     \* search payloads of the pool the directory may answer
MaxComps == 2        \* competitions listed on a club page
NumDocs == 2         \* documents of the pool a competition page may hold
MaxScoreLen == 4     \* characters of a score cell

(***************************************************************************)
(* strings: ToLower, TrimSpace, Contains, EqualFold, Fields, Trim          *)
(***************************************************************************)
UpperChars == <<"A", "B", "F", "K", "M", "O", "S", "T", "Z", "Y-acute", "C", "J", "V">>
LowerChars == <<"a", "b", "f", "k", "m", "o", "s", "t", "z", "y-acute", "c", "j", "v">>

ToLowerChar(c) ==
    IF \E i \in 1..Len(UpperChars) : UpperChars[i] = c
    THEN LowerChars[CHOOSE i \in 1..Len(UpperChars) : UpperChars[i] = c]
    ELSE c

ToLower(s) == [i \in 1..Len(s) |-> ToLowerChar(s[i])]

IsSpace(c) == c \in {" ", "\t", "\n"}

RECURSIVE TrimLeftSpace(_)
TrimLeftSpace(s) ==
    IF s # <<>> /\ IsSpace(Head(s)) THEN TrimLeftSpace(Tail(s)) ELSE s

RECURSIVE TrimRightSpace(_)
TrimRightSpace(s) ==
    IF s # <<>> /\ IsSpace(s[Len(s)])
    THEN TrimRightSpace(SubSeq(s, 1, Len(s) - 1))
    ELSE s

TrimSpace(s) == TrimRightSpace(TrimLeftSpace(s))

\* strings.Contains: sub occurs in s as a contiguous run ("" occurs in all)
Contains(s, sub) ==
    \E i \in 0..(Len(s) - Len(sub)) : SubSeq(s, i + 1, i + Len(sub)) = sub

\* strings.Index: the first position (0-based) of sub in s, -1 when absent
Index(s, sub) ==
    IF Contains(s, sub)
    THEN CHOOSE i \in 0..(Len(s) - Len(sub)) :
            /\ SubSeq(s, i + 1, i + Len(sub)) = sub
            /\ \A j \in 0..(i - 1) : SubSeq(s, j + 1, j + Len(sub)) # sub
    ELSE -1

\* strings.EqualFold: equality under case folding, no trimming
EqualFold(a, b) == ToLower(a) = ToLower(b)

\* strings.Fields: the maximal runs of non-space characters, in order
RECURSIVE FieldsFrom(_, _, _)
FieldsFrom(s, cur, acc) ==
    IF s = <<>>
    THEN IF cur = <<>> THEN acc ELSE Append(acc, cur)
    ELSE IF IsSpace(Head(s))
         THEN FieldsFrom(Tail(s), <<>>, IF cur = <<>> THEN acc ELSE Append(acc, cur))
         ELSE FieldsFrom(Tail(s), Append(cur, Head(s)), acc)

Fields(s) == FieldsFrom(s, <<>>, <<>>)

\* the cutset of strings.Trim in simplifyClubQuery (quote runes by name)
Cutset ==
    { ",", ".", ";", ":", "-", "(", ")", "[", "]", "{", "}",
      "dquote", "squote", "backtick", "ldquo", "rdquo", "rsquo" }

RECURSIVE TrimLeftCut(_)
TrimLeftCut(s) ==
    IF s # <<>> /\ Head(s) \in Cutset THEN TrimLeftCut(Tail(s)) ELSE s

RECURSIVE TrimRightCut(_)
TrimRightCut(s) ==
    IF s # <<>> /\ s[Len(s)] \in Cutset
    THEN TrimRightCut(SubSeq(s, 1, Len(s) - 1))
    ELSE s

TrimCut(s) == TrimRightCut(TrimLeftCut(s))

(***************************************************************************)
(* containsFold (main.go:1106)                                             *)
(***************************************************************************)
containsFold(s, substr) ==
    LET a == ToLower(TrimSpace(s))
        b == ToLower(TrimSpace(substr))
    IN  IF b = <<>> THEN FALSE ELSE Contains(a, b)

(***************************************************************************)
(* simplifyClubQuery (main.go:341)                                         *)
(***************************************************************************)
StopWords ==
    { <<"z", ".", "s", ".">>, <<"z", ".", "s">>, <<"z", "s">>,
      <<"z", "a", "p", "s", "a", "n", "y">>, <<"z", "a", "p", "s", "a", "n", "y-acute">>,
      <<"s", "p", "o", "l", "e", "k">>,
      <<"o", ".", "s", ".">>, <<"o", ".", "s">>, <<"o", "s">>,
      <<"a", ".", "s", ".">>, <<"a", ".", "s">>, <<"a", "s">>,
      <<"s", ".", "r", ".", "o", ".">>, <<"s", ".", "r", ".", "o">>, <<"s", "r", "o">> }

\* the characters of this model's alphabet that the letters pattern of line 364
\* matches (ASCII letters and the accented range; "y-acute" is one rune)
LetterChars ==
    { "a", "b", "c", "e", "f", "i", "j", "k", "l", "m", "n", "o", "p", "r", "s", "t",
      "v", "y", "z", "y-acute",
      "A", "B", "C", "F", "J", "K", "M", "O", "S", "T", "V", "Z", "Y-acute" }

HasLetter(s) == \E i \in 1..Len(s) : s[i] \in LetterChars

MinTokenLen == 3

\* the loop of lines 356-368 from word i down to the first: the token found,
\* or <<>> with found = FALSE when the loop runs out
\* the loop without the stopword test of lines 360-362
RECURSIVE TokenScanNoStop(_, _)
TokenScanNoStop(parts, i) ==
    IF i < 1 THEN [found |-> FALSE, tok |-> <<>>]
    ELSE LET lt == ToLower(TrimCut(parts[i]))
         IN  IF Len(lt) >= MinTokenLen /\ HasLetter(lt)
             THEN [found |-> TRUE, tok |-> lt]
             ELSE TokenScanNoStop(parts, i - 1)

RECURSIVE TokenScan(_, _)
TokenScan(parts, i) ==
    IF i < 1 THEN [found |-> FALSE, tok |-> <<>>]
    ELSE LET lt == ToLower(TrimCut(parts[i]))
         IN  IF lt \in StopWords THEN TokenScan(parts, i - 1)
             ELSE IF Len(lt) >= MinTokenLen /\ HasLetter(lt)
                  THEN [found |-> TRUE, tok |-> lt]
                  ELSE TokenScan(parts, i - 1)

simplifyClubQuery(name) ==
    LET s == TrimSpace(name)
        parts == Fields(s)
        scan == TokenScan(parts, Len(parts))
    IN  IF s = <<>> \/ Len(parts) = 0 THEN <<>>
        ELSE IF scan.found THEN scan.tok
        ELSE ToLower(TrimCut(parts[Len(parts)]))

(***************************************************************************)
(* Pools the inputs are drawn from.                                        *)
(***************************************************************************)
nMost == <<"M", "o", "s", "t">>
nMostUpper == <<"M", "O", "S", "T">>
nSKMostB == <<"S", "K", " ", "M", "o", "s", "t", " ", "B">>
nBrno == <<"B", "r", "n", "o">>
nVolno == <<"v", "o", "l", "n", "o">>
nZlin == <<"Z", "l", "i", "n">>
nFKMostZS == <<"F", "K", " ", "M", "o", "s", "t", " ", "z", ".", "s", ".">>
nTJSokolMost == <<"T", "J", " ", "S", "o", "k", "o", "l", " ", "M", "o", "s", "t">>
nMostParen == <<"M", "o", "s", "t", " ", "(", "B", ")">>

TeamNamePool == <<nMost, nSKMostB, nBrno, nMostUpper, nVolno, nZlin>>
TeamNames == {TeamNamePool[i] : i \in 1..NumNames}

\* the club page's h1 text, trimmed (line 839); <<>> when the page has none
ClubNamePool == << <<>>, nMost, nFKMostZS, nBrno, nTJSokolMost >>
ClubNames == {ClubNamePool[i] : i \in 1..NumClubNames}

NoID == <<>>
idX == <<"a", "1">>
idXUpper == <<"A", "1">>
idY == <<"b", "2">>
RowIDs == {NoID, idX, idXUpper, idY}
ClubIDs == {NoID, idX}

\* the clubType values the adapters are called with
tFootball == <<"f", "o", "o", "t", "b", "a", "l", "l">>
tFutsal == <<"f", "u", "t", "s", "a", "l">>

Contexts == [clubType : {tFootball}, clubName : ClubNames, clubID : ClubIDs]

\* a li.MatchRound of the public page: whether it holds a.MatchRound-match, the
\* href of that anchor, and inside it the texts of the span.H7 elements and,
\* per img, what extractUUIDFromHref finds in its src
FotbalCells == TeamNames \cup {nMostParen}
FotbalRows ==
    [src : {"fotbal"}, anchor : {TRUE}, href : {<<>>},
     spans : {<<h, a>> : h \in FotbalCells, a \in FotbalCells} \cup {<<nMost>>},
     imgs : {<<>>} \cup {<<i>> : i \in RowIDs} \cup {<<i, j>> : i \in RowIDs, j \in RowIDs}]
    \cup {[src |-> "fotbal", anchor |-> FALSE, href |-> <<>>, spans |-> <<>>, imgs |-> <<>>]}

\* a tr of table.soutez-zapasy: whether it holds a th, its number of td, the
\* texts of the two team cells, what extractUUIDFromHref finds in the first
\* link of each, and the hrefs of the links of the last cell
ISCells == TeamNames \cup {nMostParen, <<>>}
ISRows ==
    [src : {"is"}, th : {FALSE}, ntd : {5}, links : {<<>>},
     home : ISCells, away : ISCells, homeHref : RowIDs, awayHref : RowIDs]
    \cup {[src |-> "is", th |-> TRUE, ntd |-> 5, home |-> nMost, away |-> nBrno,
           homeHref |-> NoID, awayHref |-> NoID, links |-> <<>>],
          [src |-> "is", th |-> FALSE, ntd |-> 4, home |-> nMost, away |-> nBrno,
           homeHref |-> NoID, awayHref |-> NoID, links |-> <<>>]}

(***************************************************************************)
(* parseCompetitionMatchesFromFotbal, the callback of line 82: field       *)
(* extraction (lines 83-111)                                               *)
(***************************************************************************)
NonEmptyText(t) == t # <<>>

FotbalFields(li) ==
    LET teamNames == SelectSeq([i \in 1..Len(li.spans) |-> TrimSpace(li.spans[i])],
                               NonEmptyText)
        imgIDs == SelectSeq(li.imgs, NonEmptyText)
    IN  [ok |-> li.anchor /\ Len(teamNames) >= 2,
         home |-> IF Len(teamNames) >= 2 THEN teamNames[1] ELSE <<>>,
         away |-> IF Len(teamNames) >= 2 THEN teamNames[2] ELSE <<>>,
         homeID |-> IF Len(imgIDs) >= 1 THEN imgIDs[1] ELSE NoID,
         awayID |-> IF Len(imgIDs) >= 2 THEN imgIDs[2] ELSE NoID]

(***************************************************************************)
(* parseCompetitionMatchesFromIS, the callback of line 247: field          *)
(* extraction (lines 248-259)                                              *)
(***************************************************************************)
MinISCells == 5

\* lines 255 and 257: cut at the first "(" and trim
CutAtParen(raw) ==
    LET idx == Index(raw, <<"(">>)
    IN  IF idx >= 0 THEN TrimSpace(SubSeq(raw, 1, idx)) ELSE raw

ISFields(tr) ==
    [ok |-> ~tr.th /\ tr.ntd >= MinISCells,
     home |-> CutAtParen(TrimSpace(tr.home)),
     away |-> CutAtParen(TrimSpace(tr.away)),
     homeID |-> tr.homeHref,
     awayID |-> tr.awayHref]

(***************************************************************************)
(* The involvement filter, as each adapter writes it                       *)
(***************************************************************************)
\* the filter with the guard of line 149 left out
involvedFotbalAlways(home, away, homeID, awayID, clubName, clubID) ==
    \/ clubID # <<>> /\ (EqualFold(homeID, clubID) \/ EqualFold(awayID, clubID))
    \/ /\ clubName # <<>>
       /\ \/ EqualFold(home, clubName) \/ EqualFold(away, clubName)
          \/ containsFold(clubName, home) \/ containsFold(clubName, away)
          \/ containsFold(home, clubName) \/ containsFold(away, clubName)
          \/ LET token == simplifyClubQuery(clubName)
             IN  token # <<>> /\ (containsFold(home, token) \/ containsFold(away, token))

\* lines 149-168; TRUE when the row goes on to backfill
involvedFotbal(home, away, homeID, awayID, clubName, clubID) ==
    IF clubName # <<>> \/ clubID # <<>>
    THEN IF clubID # <<>> /\ (EqualFold(homeID, clubID) \/ EqualFold(awayID, clubID))
         THEN TRUE
         ELSE IF clubName # <<>>
              THEN \/ EqualFold(home, clubName) \/ EqualFold(away, clubName)
                   \/ containsFold(clubName, home) \/ containsFold(clubName, away)
                   \/ containsFold(home, clubName) \/ containsFold(away, clubName)
                   \/ LET token == simplifyClubQuery(clubName)
                      IN  token # <<>> /\ (containsFold(home, token) \/ containsFold(away, token))
              ELSE FALSE
    ELSE TRUE

\* the filter with the token fallback of lines 300-305 left out
involvedISNoToken(rawHome, rawAway, homeID, awayID, clubName, clubID) ==
    IF clubName # <<>> \/ clubID # <<>>
    THEN IF clubID # <<>> /\ (EqualFold(homeID, clubID) \/ EqualFold(awayID, clubID))
         THEN TRUE
         ELSE IF clubName # <<>>
              THEN \/ EqualFold(rawHome, clubName) \/ EqualFold(rawAway, clubName)
                   \/ containsFold(clubName, rawHome) \/ containsFold(clubName, rawAway)
                   \/ containsFold(rawHome, clubName) \/ containsFold(rawAway, clubName)
              ELSE FALSE
    ELSE TRUE

\* lines 292-308
involvedIS(rawHome, rawAway, homeID, awayID, clubName, clubID) ==
    IF clubName # <<>> \/ clubID # <<>>
    THEN IF clubID # <<>> /\ (EqualFold(homeID, clubID) \/ EqualFold(awayID, clubID))
         THEN TRUE
         ELSE IF clubName # <<>>
              THEN \/ EqualFold(rawHome, clubName) \/ EqualFold(rawAway, clubName)
                   \/ containsFold(clubName, rawHome) \/ containsFold(clubName, rawAway)
                   \/ containsFold(rawHome, clubName) \/ containsFold(rawAway, clubName)
                   \/ LET token == simplifyClubQuery(clubName)
                      IN  token # <<>> /\ (containsFold(rawHome, token) \/ containsFold(rawAway, token))
              ELSE FALSE
    ELSE TRUE

(***************************************************************************)
(* Backfill of one side's identifier, as each adapter writes it            *)
(***************************************************************************)
\* the backfill with the token fallback of lines 175-178 left out
backfillFotbalNoToken(team, teamID, clubName, clubID) ==
    IF teamID = <<>>
    THEN IF EqualFold(team, clubName) \/ containsFold(team, clubName) \/ containsFold(clubName, team)
         THEN clubID
         ELSE teamID
    ELSE teamID

\* lines 170-179 (home) and 180-189 (away)
backfillFotbal(team, teamID, clubName, clubID) ==
    IF teamID = <<>>
    THEN IF EqualFold(team, clubName) \/ containsFold(team, clubName) \/ containsFold(clubName, team)
         THEN clubID
         ELSE LET token == simplifyClubQuery(clubName)
              IN  IF token # <<>> /\ containsFold(team, token) THEN clubID ELSE teamID
    ELSE teamID

\* the backfill with the test of lines 310 and 316 left out
backfillISOverwrite(team, teamID, clubName, clubID) ==
    IF EqualFold(team, clubName) \/ containsFold(team, clubName) \/ containsFold(clubName, team)
    THEN clubID
    ELSE LET token == simplifyClubQuery(clubName)
         IN  IF token # <<>> /\ containsFold(team, token) THEN clubID ELSE teamID

\* lines 310-315 (home) and 316-321 (away)
backfillIS(team, teamID, clubName, clubID) ==
    IF teamID = <<>>
    THEN IF EqualFold(team, clubName) \/ containsFold(team, clubName) \/ containsFold(clubName, team)
         THEN clubID
         ELSE LET token == simplifyClubQuery(clubName)
              IN  IF token # <<>> /\ containsFold(team, token) THEN clubID ELSE teamID
    ELSE teamID

(***************************************************************************)
(* getLogo (main.go:439) and getLogoBySearch (main.go:374): the pieces     *)
(***************************************************************************)
Placeholder == <<"https://www.fotbal.cz/dist/img/logo-club-empty.svg">>

NoOpponentMarkers ==
    { <<"v", "o", "l", "n", "o">>,
      <<"v", "o", "l", "n", "y-acute", " ", "l", "o", "s">>,
      <<"v", "o", "l", "n", "y", " ", "l", "o", "s">>,
      <<"b", "y", "e">> }

\* line 448: the URL templated from the trimmed team id
IDLogoURL(tid) ==
    <<"https://is1.fotbal.cz/media/kluby/">> \o tid \o <<"/">> \o tid \o <<"_crop.jpg">>

\* lines 441-442: the name is empty or holds a no-opponent marker
IsNoOpponent(teamName) ==
    LET name == ToLower(TrimSpace(teamName))
    IN  name = <<>> \/ \E m \in NoOpponentMarkers : Contains(name, m)

\* getLogo testing the team id before the no-opponent markers
getLogoPathIDFirst(teamName, teamID) ==
    IF TrimSpace(teamID) # <<>> THEN "byID"
    ELSE IF IsNoOpponent(teamName) THEN "placeholder"
    ELSE "bySearch"

\* lines 441-451: which way getLogo goes, in the order the code tests
getLogoPath(teamName, teamID) ==
    IF IsNoOpponent(teamName) THEN "placeholder"
    ELSE IF TrimSpace(teamID) # <<>> THEN "byID"
    ELSE "bySearch"

\* getLogo handing on whatever getLogoBySearch returned
getLogoResultRaw(logo) == logo

\* lines 451-455: the search result, or the placeholder when it is empty
getLogoResult(logo) == IF logo # <<>> THEN logo ELSE Placeholder

\* line 375
CacheKey(name) == ToLower(TrimSpace(name))

\* lines 384-387: the query of the first search
SearchQuery(name) ==
    LET query == simplifyClubQuery(name)
    IN  IF query = <<>> THEN name ELSE query

\* the outcome of one doSearch (lines 389-405): ok = FALSE for a transport
\* error, a non-200 status or an undecodable body
SearchFailed == [ok |-> FALSE, results |-> <<>>]

logo1 == <<"logo-1">>
logo2 == <<"logo-2">>
logo3 == <<"logo-3">>
NoLogo == <<>>

PayloadPool ==
    << <<>>,
       <<[name |-> nMost, logo |-> logo1]>>,
       <<[name |-> nSKMostB, logo |-> logo2], [name |-> nMost, logo |-> NoLogo]>>,
       <<[name |-> nBrno, logo |-> logo3], [name |-> nSKMostB, logo |-> logo2]>>,
       <<[name |-> nBrno, logo |-> NoLogo], [name |-> <<" ">> \o nMostUpper, logo |-> logo1]>> >>

SearchOutcomes ==
    {SearchFailed} \cup {[ok |-> TRUE, results |-> PayloadPool[i]] : i \in 1..NumPayloads}

\* where a range loop that breaks on its first hit stops: the least index
\* of hits, 0 when there is none
FirstHit(hits) ==
    IF hits = {} THEN 0 ELSE CHOOSE i \in hits : \A j \in hits : i <= j

\* lines 415-434: exact, then contains, else first; each later loop runs
\* when best is still the empty string
PickBest(results, name, key) ==
    LET IsExact(r) == EqualFold(TrimSpace(r.name), TrimSpace(name))
        IsNear(r) == LET rname == ToLower(r.name)
                     IN  Contains(rname, key) \/ Contains(key, rname)
        e == FirstHit({i \in 1..Len(results) : IsExact(results[i])})
        best1 == IF e > 0 THEN results[e].logo ELSE NoLogo
        n == FirstHit({i \in 1..Len(results) : IsNear(results[i])})
        best2 == IF best1 = NoLogo
                 THEN IF n > 0 THEN results[n].logo ELSE NoLogo
                 ELSE best1
    IN  IF best2 = NoLogo /\ Len(results) > 0 THEN results[1].logo ELSE best2

\* the map left with the written entry alone
CachePutAlone(cache, key, best) == key :> best

\* line 435
CachePut(cache, key, best) == (key :> best) @@ cache

(***************************************************************************)
(* getLogo run to completion by one goroutine with no other goroutine      *)
(* touching the cache: o1 and o2 are what the directory answers to the     *)
(* token search and to the full-name search, when they are issued          *)
(***************************************************************************)
getLogoBySearchSeq(name, cache, o1, o2) ==
    LET key == CacheKey(name)
    IN  IF key = <<>> THEN [ret |-> NoLogo, cache |-> cache, calls |-> 0]
        ELSE IF key \in DOMAIN cache THEN [ret |-> cache[key], cache |-> cache, calls |-> 0]
        ELSE IF o1.ok /\ Len(o1.results) > 0
             THEN LET best == PickBest(o1.results, name, key)
                  IN  [ret |-> best, cache |-> CachePut(cache, key, best), calls |-> 1]
             ELSE IF ~o2.ok THEN [ret |-> NoLogo, cache |-> cache, calls |-> 2]
                  ELSE LET best == PickBest(o2.results, name, key)
                       IN  [ret |-> best, cache |-> CachePut(cache, key, best), calls |-> 2]

getLogoSeq(teamName, teamID, cache, o1, o2) ==
    LET path == getLogoPath(teamName, teamID)
        found == getLogoBySearchSeq(teamName, cache, o1, o2)
    IN  CASE path = "placeholder" -> [url |-> Placeholder, cache |-> cache, calls |-> 0]
          [] path = "byID" -> [url |-> IDLogoURL(TrimSpace(teamID)), cache |-> cache, calls |-> 0]
          [] OTHER -> [url |-> getLogoResult(found.ret),
                       cache |-> found.cache, calls |-> found.calls]

(***************************************************************************)
(* extractUUIDFromHref (main.go:1116)                                      *)
(***************************************************************************)
HexChars ==
    {"0", "1", "2", "3", "4", "5", "6", "7", "8", "9",
     "a", "b", "c", "d", "e", "f", "A", "B", "C", "D", "E", "F"}

\* line 1121: the lengths of the groups of hexadecimal digits
UUIDGroups == <<8, 4, 4, 4, 12>>

RECURSIVE SumTo(_, _)
SumTo(g, n) == IF n = 0 THEN 0 ELSE g[n] + SumTo(g, n - 1)

\* the length of a match: the groups and the hyphens between them
UUIDLen == SumTo(UUIDGroups, Len(UUIDGroups)) + Len(UUIDGroups) - 1

\* the offsets (from 1) of the hyphens of the pattern
HyphenAt == {SumTo(UUIDGroups, n) + n : n \in 1..(Len(UUIDGroups) - 1)}

\* line 1121: the pattern matches the text at offset i
UUIDMatchAt(s, i) ==
    /\ i + UUIDLen - 1 <= Len(s)
    /\ \A p \in 1..UUIDLen :
          IF p \in HyphenAt THEN s[i + p - 1] = "-" ELSE s[i + p - 1] \in HexChars

\* regexp.MatchString: the pattern matches somewhere in the text
UUIDMatchString(s) == \E i \in 1..Len(s) : UUIDMatchAt(s, i)

\* the rightmost match instead of the leftmost
UUIDFindLast(s) ==
    IF UUIDMatchString(s)
    THEN LET i == CHOOSE i \in 1..Len(s) :
                     UUIDMatchAt(s, i) /\ \A j \in (i + 1)..Len(s) : ~UUIDMatchAt(s, j)
         IN  SubSeq(s, i, i + UUIDLen - 1)
    ELSE <<>>

\* regexp.FindString: the leftmost match, empty when there is none
UUIDFindString(s) ==
    IF UUIDMatchString(s)
    THEN LET i == CHOOSE i \in 1..Len(s) :
                     UUIDMatchAt(s, i) /\ \A j \in 1..(i - 1) : ~UUIDMatchAt(s, j)
         IN  SubSeq(s, i, i + UUIDLen - 1)
    ELSE <<>>

\* lines 1126-1128: the text after the last "/" (the whole text without one)
LastSegment(s) ==
    IF \E i \in 1..Len(s) : s[i] = "/"
    THEN LET i == CHOOSE i \in 1..Len(s) :
                     s[i] = "/" /\ \A j \in (i + 1)..Len(s) : s[j] # "/"
         IN  SubSeq(s, i + 1, Len(s))
    ELSE s

\* lines 1116-1134
extractUUIDFromHref(href) ==
    LET h == TrimSpace(href)
        m == UUIDFindString(h)
        cand == LastSegment(h)
    IN  IF h = <<>> THEN <<>>
        ELSE IF m # <<>> THEN m
        ELSE IF UUIDMatchString(cand) THEN cand
        ELSE <<>>

(***************************************************************************)
(* resolveISURL (main.go:1167) with url.Parse, URL.Query, Values.Encode    *)
(* and URL.String                                                          *)
(***************************************************************************)
HasPrefix(s, p) == Len(s) >= Len(p) /\ SubSeq(s, 1, Len(p)) = p

TrimPrefix(s, p) == IF HasPrefix(s, p) THEN SubSeq(s, Len(p) + 1, Len(s)) ELSE s

tHttp == <<"h", "t", "t", "p", ":", "/", "/">>
tHttps == <<"h", "t", "t", "p", "s", ":", "/", "/">>
tSchemeSep == <<":", "/", "/">>
tISHost == <<"i", "s", ".", "f", "o", "t", "b", "a", "l", ".", "c", "z">>
tPublic == <<"/", "p", "u", "b", "l", "i", "c", "/">>
tPublicBare == <<"/", "p", "u", "b", "l", "i", "c">>
tZapasy == <<"/", "z", "a", "p", "a", "s", "y", "/">>
tDiscipline == <<"d", "i", "s", "c", "i", "p", "l", "i", "n", "e">>
tDotSlash == <<".", "/">>
tDotDotSlash == <<".", ".", "/">>

\* the text before the first occurrence of one of the characters, and the
\* text from that occurrence on
CutBefore(s, chars) ==
    IF \E i \in 1..Len(s) : s[i] \in chars
    THEN LET i == CHOOSE i \in 1..Len(s) :
                     s[i] \in chars /\ \A j \in 1..(i - 1) : s[j] \notin chars
         IN  [head |-> SubSeq(s, 1, i - 1), rest |-> SubSeq(s, i, Len(s))]
    ELSE [head |-> s, rest |-> <<>>]

\* url.Parse on a text that holds "://": scheme, host, path and raw query;
\* a host that opens a bracket without closing it is an error
ParseURL(h) ==
    LET idx == Index(h, tSchemeSep)
        afterScheme == SubSeq(h, idx + Len(tSchemeSep) + 1, Len(h))
        auth == CutBefore(afterScheme, {"/", "?"})
        pq == CutBefore(auth.rest, {"?"})
    IN  [ok |-> ~(HasPrefix(auth.head, <<"[">>) /\ ~Contains(auth.head, <<"]">>)),
         scheme |-> SubSeq(h, 1, idx),
         host |-> auth.head,
         path |-> pq.head,
         rawQuery |-> IF pq.rest = <<>> THEN <<>> ELSE Tail(pq.rest)]

RECURSIVE SplitOn(_, _)
SplitOn(s, c) ==
    LET cut == CutBefore(s, {c})
    IN  IF cut.rest = <<>> THEN <<cut.head>>
        ELSE <<cut.head>> \o SplitOn(Tail(cut.rest), c)

\* url.QueryUnescape: "+" is a blank
QueryUnescape(s) == [i \in 1..Len(s) |-> IF s[i] = "+" THEN " " ELSE s[i]]

\* url.QueryEscape: a blank is "+", a reserved character its escape
RECURSIVE QueryEscape(_)
QueryEscape(s) ==
    IF s = <<>> THEN <<>>
    ELSE (CASE Head(s) = " " -> <<"+">>
            [] Head(s) = "?" -> <<"%", "3", "F">>
            [] Head(s) = "/" -> <<"%", "2", "F">>
            [] Head(s) = ":" -> <<"%", "3", "A">>
            [] Head(s) = "+" -> <<"%", "2", "B">>
            [] OTHER -> <<Head(s)>>) \o QueryEscape(Tail(s))

\* URL.EscapedPath: of the characters of the pool only "?" and the blank are
\* escaped in a path
RECURSIVE PathEscape(_)
PathEscape(s) ==
    IF s = <<>> THEN <<>>
    ELSE (CASE Head(s) = "?" -> <<"%", "3", "F">>
            [] Head(s) = " " -> <<"%", "2", "0">>
            [] OTHER -> <<Head(s)>>) \o PathEscape(Tail(s))

\* URL.Query: the key=value pairs of the raw query, in order, unescaped
ParamOf(kv) ==
    LET cut == CutBefore(kv, {"="})
    IN  [key |-> QueryUnescape(cut.head),
         val |-> IF cut.rest = <<>> THEN <<>> ELSE QueryUnescape(Tail(cut.rest))]

NonEmptyPart(t) == t # <<>>

ParseQuery(raw) ==
    LET parts == SelectSeq(SplitOn(raw, "&"), NonEmptyPart)
    IN  [i \in 1..Len(parts) |-> ParamOf(parts[i])]

\* Values.Del
NotDiscipline(p) == p.key # tDiscipline
DelDiscipline(params) == SelectSeq(params, NotDiscipline)

\* the byte order of the characters that keys are made of
ByteOrder == <<"0", "1", "2", "a", "c", "d", "e", "i", "l", "n", "p", "s", "z">>
CharRank(c) == CHOOSE i \in 1..Len(ByteOrder) : ByteOrder[i] = c

RECURSIVE KeyLess(_, _)
KeyLess(a, b) ==
    IF b = <<>> THEN FALSE
    ELSE IF a = <<>> THEN TRUE
    ELSE IF Head(a) = Head(b) THEN KeyLess(Tail(a), Tail(b))
    ELSE CharRank(Head(a)) < CharRank(Head(b))

\* Values.Encode sorts by key and keeps the order of the values of one key
RECURSIVE InsertParam(_, _)
InsertParam(sorted, p) ==
    IF sorted = <<>> THEN <<p>>
    ELSE IF KeyLess(p.key, Head(sorted).key) THEN <<p>> \o sorted
    ELSE <<Head(sorted)>> \o InsertParam(Tail(sorted), p)

RECURSIVE SortParams(_)
SortParams(params) ==
    IF params = <<>> THEN <<>>
    ELSE InsertParam(SortParams(SubSeq(params, 1, Len(params) - 1)), params[Len(params)])

RECURSIVE JoinParams(_)
JoinParams(params) ==
    IF params = <<>> THEN <<>>
    ELSE QueryEscape(Head(params).key) \o <<"=">> \o QueryEscape(Head(params).val)
         \o (IF Len(params) > 1 THEN <<"&">> ELSE <<>>) \o JoinParams(Tail(params))

EncodeQuery(params) == JoinParams(SortParams(params))

\* URL.String
URLString(scheme, host, path, rawQuery) ==
    scheme \o tSchemeSep \o host \o PathEscape(path)
    \o (IF rawQuery # <<>> THEN <<"?">> \o rawQuery ELSE <<>>)

\* lines 1186-1188
RECURSIVE TrimDotDots(_)
TrimDotDots(s) == IF HasPrefix(s, tDotDotSlash) THEN TrimDotDots(TrimPrefix(s, tDotDotSlash)) ELSE s

\* lines 1167-1195
resolveISURL(href) ==
    LET h == TrimSpace(href)
        u == ParseURL(h)
        path == IF ~HasPrefix(u.path, tPublic) /\ HasPrefix(u.path, tZapasy)
                THEN tPublicBare \o u.path
                ELSE u.path
        rel == TrimPrefix(TrimDotDots(TrimPrefix(h, tDotSlash)), <<"/">>)
    IN  IF HasPrefix(h, tHttp) \/ HasPrefix(h, tHttps)
        THEN IF u.ok
             THEN URLString(<<"h", "t", "t", "p", "s">>, tISHost, path,
                            EncodeQuery(DelDiscipline(ParseQuery(u.rawQuery))))
             ELSE h
        ELSE URLString(<<"h", "t", "t", "p", "s">>, tISHost, tPublic \o rel, <<>>)

(***************************************************************************)
(* The per-row callbacks of the two adapters, run to completion: field     *)
(* extraction, involvement filter, backfill, the two getLogo calls and the *)
(* append.  rowOut receives what the callback did: the fields it extracted *)
(* and the Match it appended (NoMatch when it returned early).  oh and oa  *)
(* are what the directory answers while the home and the away logo are     *)
(* resolved.                                                               *)
(***************************************************************************)
NoMatch ==
    [Home |-> <<>>, HomeID |-> NoID, HomeLogoURL |-> <<>>,
     Away |-> <<>>, AwayID |-> NoID, AwayLogoURL |-> <<>>,
     MatchID |-> <<>>, ReportURL |-> <<>>, DelegationURL |-> <<>>]

\* lines 141 and 143, 286 and 288: the templates of the report URL
tFutsalReport == <<"h", "t", "t", "p", "s", ":", "/", "/", "w", "w", "w", ".", "f", "o", "t", "b", "a", "l", ".", "c", "z", "/", "f", "u", "t", "s", "a", "l", "/", "z", "a", "p", "a", "s", "y", "/", "f", "u", "t", "s", "a", "l", "/">>
tFootballReport == <<"h", "t", "t", "p", "s", ":", "/", "/", "w", "w", "w", ".", "f", "o", "t", "b", "a", "l", ".", "c", "z", "/", "s", "o", "u", "t", "e", "z", "e", "/", "z", "a", "p", "a", "s", "y", "/", "z", "a", "p", "a", "s", "/">>

\* the template chosen by clubType = "futsal", letter case included
reportURLExactCase(clubType, matchID) ==
    IF matchID = <<>> THEN <<>>
    ELSE IF clubType = tFutsal THEN tFutsalReport \o matchID
    ELSE tFootballReport \o matchID

\* lines 139-147 and 284-290
reportURLFor(clubType, matchID) ==
    IF matchID = <<>> THEN <<>>
    ELSE IF EqualFold(clubType, tFutsal) THEN tFutsalReport \o matchID
    ELSE tFootballReport \o matchID

\* lines 276 and 279: the markers of the two internal-system links
tReportMarker == <<"z", "a", "p", "i", "s", "-", "o", "-", "u", "t", "k", "a", "n", "i", "-", "r", "e", "p", "o", "r", "t", ".", "a", "s", "p", "x">>
tDelegMarker == <<"z", "a", "p", "a", "s", "-", "d", "e", "l", "e", "g", "a", "c", "e", "-", "r", "e", "p", "o", "r", "t", ".", "a", "s", "p", "x">>
tZapas == <<"z", "a", "p", "a", "s">>

\* line 273: u.Query().Get(key) of an href, the first value of the key
QueryGet(href, key) ==
    LET cut == CutBefore(href, {"?"})
        params == IF cut.rest = <<>> THEN <<>> ELSE ParseQuery(Tail(cut.rest))
        IsKey(prm) == prm.key = key
        hits == SelectSeq(params, IsKey)
    IN  IF hits = <<>> THEN <<>> ELSE hits[1].val

NoLinks == [matchID |-> <<>>, report |-> <<>>, deleg |-> <<>>]

\* lines 270-283: the links of the last cell, in document order
RECURSIVE ScanLinks(_, _)
ScanLinks(links, acc) ==
    IF links = <<>> THEN acc
    ELSE LET href == TrimSpace(Head(links))
             id == QueryGet(href, tZapas)
         IN  IF href = <<>> THEN ScanLinks(Tail(links), acc)
             ELSE ScanLinks(Tail(links),
                    [matchID |-> IF id # <<>> THEN id ELSE acc.matchID,
                     report |-> IF Contains(href, tReportMarker)
                                THEN resolveISURL(href) ELSE acc.report,
                     deleg |-> IF Contains(href, tDelegMarker)
                               THEN resolveISURL(href) ELSE acc.deleg])

\* line 323: the direct report link before the template
ISReportURL(isReportHref, reportURL) ==
    IF isReportHref # <<>> THEN isReportHref ELSE reportURL

\* what the directory may answer to the two searches of one resolution
RowOracles ==
    { <<SearchFailed, SearchFailed>>,
      <<[ok |-> TRUE, results |-> PayloadPool[1]], [ok |-> TRUE, results |-> PayloadPool[2]]>> }

\* lines 82-201
FotbalCallback(li, clubType, clubName, clubID) ==
    \E f \in {FotbalFields(li)} :
        IF ~f.ok
        THEN /\ rowOut' = [status |-> "skipped", fields |-> f, match |-> NoMatch]
             /\ logoCache' = logoCache
        ELSE IF ~involvedFotbal(f.home, f.away, f.homeID, f.awayID, clubName, clubID)
        THEN /\ rowOut' = [status |-> "dropped", fields |-> f, match |-> NoMatch]
             /\ logoCache' = logoCache
        ELSE \E homeID \in {backfillFotbal(f.home, f.homeID, clubName, clubID)},
                awayID \in {backfillFotbal(f.away, f.awayID, clubName, clubID)},
                matchID \in {extractUUIDFromHref(li.href)},
                oh \in RowOracles, oa \in RowOracles :
             \E homeLogo \in {getLogoSeq(f.home, homeID, logoCache, oh[1], oh[2])} :
             \E awayLogo \in {getLogoSeq(f.away, awayID, homeLogo.cache, oa[1], oa[2])} :
                /\ rowOut' = [status |-> "kept", fields |-> f,
                              match |-> [Home |-> f.home, HomeID |-> homeID,
                                         HomeLogoURL |-> homeLogo.url,
                                         Away |-> f.away, AwayID |-> awayID,
                                         AwayLogoURL |-> awayLogo.url,
                                         MatchID |-> matchID,
                                         ReportURL |-> reportURLFor(clubType, matchID),
                                         DelegationURL |-> <<>>]]
                /\ logoCache' = awayLogo.cache

\* lines 247-325
ISCallback(tr, clubType, clubName, clubID) ==
    \E f \in {ISFields(tr)} :
        IF ~f.ok
        THEN /\ rowOut' = [status |-> "skipped", fields |-> f, match |-> NoMatch]
             /\ logoCache' = logoCache
        ELSE IF ~involvedIS(f.home, f.away, f.homeID, f.awayID, clubName, clubID)
        THEN /\ rowOut' = [status |-> "dropped", fields |-> f, match |-> NoMatch]
             /\ logoCache' = logoCache
        ELSE \E homeID \in {backfillIS(f.home, f.homeID, clubName, clubID)},
                awayID \in {backfillIS(f.away, f.awayID, clubName, clubID)},
                ln \in {ScanLinks(tr.links, NoLinks)},
                oh \in RowOracles, oa \in RowOracles :
             \E homeLogo \in {getLogoSeq(f.home, homeID, logoCache, oh[1], oh[2])} :
             \E awayLogo \in {getLogoSeq(f.away, awayID, homeLogo.cache, oa[1], oa[2])} :
                /\ rowOut' = [status |-> "kept", fields |-> f,
                              match |-> [Home |-> f.home, HomeID |-> homeID,
                                         HomeLogoURL |-> homeLogo.url,
                                         Away |-> f.away, AwayID |-> awayID,
                                         AwayLogoURL |-> awayLogo.url,
                                         MatchID |-> ln.matchID,
                                         ReportURL |->
                                             ISReportURL(ln.report,
                                                 reportURLFor(clubType, ln.matchID)),
                                         DelegationURL |-> ln.deleg]]
                /\ logoCache' = awayLogo.cache

NoFields == [ok |-> FALSE, home |-> <<>>, away |-> <<>>, homeID |-> NoID, awayID |-> NoID]
RowPending == [status |-> "pending", fields |-> NoFields, match |-> NoMatch]
IdleReq == [pc |-> "idle"]

(***************************************************************************)
(* RowSpec: one row of either document shape under one club context, the   *)
(* callback applied once.                                                  *)
(***************************************************************************)
FotbalRowCallback ==
    /\ rowIn.src = "fotbal"
    /\ rowOut.status = "pending"
    /\ FotbalCallback(rowIn, clubCtx.clubType, clubCtx.clubName, clubCtx.clubID)
    /\ UNCHANGED <<rowIn, clubCtx, gor, mapAcc, resolved, fatal, req>>

ISRowCallback ==
    /\ rowIn.src = "is"
    /\ rowOut.status = "pending"
    /\ ISCallback(rowIn, clubCtx.clubType, clubCtx.clubName, clubCtx.clubID)
    /\ UNCHANGED <<rowIn, clubCtx, gor, mapAcc, resolved, fatal, req>>

RowInit ==
    /\ rowIn \in FotbalRows \cup ISRows
    /\ clubCtx \in Contexts
    /\ rowOut = RowPending
    /\ logoCache = <<>>
    /\ gor = <<>>
    /\ mapAcc = <<>>
    /\ resolved = {}
    /\ fatal = FALSE
    /\ req = IdleReq

RowNext == FotbalRowCallback \/ ISRowCallback

RowSpec == RowInit /\ [][RowNext]_vars

(***************************************************************************)
(* ScoreSpec: the score text of one cell through the normalization of each *)
(* of the three places that normalize a score.  The regular expressions of *)
(* lines 114, 262 and 756 have the same two groups: the leftmost run of    *)
(* digits that is followed by optional white space, a colon, optional      *)
(* white space and a digit, and the run of digits that starts there.       *)
(***************************************************************************)
ScoreDigits == {"0", "1", "2", "3", "4", "5", "6", "7", "8", "9"}
ScoreChars == {"1", "0", " ", ":", "x"}
ScoreTexts == UNION {[1..n -> ScoreChars] : n \in 0..MaxScoreLen}
ScoreSites == {"fotbal", "is", "table"}

\* the last index of the run of digits that starts at i
DigitRunEnd(t, i) ==
    CHOOSE j \in i..Len(t) :
        /\ \A k \in i..j : t[k] \in ScoreDigits
        /\ j = Len(t) \/ t[j + 1] \notin ScoreDigits

\* the first index from i on that holds no white space, Len(t) + 1 when none
SkipSpace(t, i) ==
    CHOOSE j \in i..(Len(t) + 1) :
        /\ \A k \in i..(j - 1) : IsSpace(t[k])
        /\ j = Len(t) + 1 \/ ~IsSpace(t[j])

\* ([0-9]+)\s*:\s*([0-9]+) matches with its first group starting at i
ScoreMatchAt(t, i) ==
    /\ t[i] \in ScoreDigits
    /\ LET c == SkipSpace(t, DigitRunEnd(t, i) + 1)
       IN  /\ c <= Len(t)
           /\ t[c] = ":"
           /\ SkipSpace(t, c + 1) <= Len(t)
           /\ t[SkipSpace(t, c + 1)] \in ScoreDigits

\* FindStringSubmatch and the Sprintf("%s:%s", m[1], m[2]) of its groups
ScoreFound(t) == \E i \in 1..Len(t) : ScoreMatchAt(t, i)

ScoreFormat(t) ==
    LET i == CHOOSE x \in 1..Len(t) :
                 ScoreMatchAt(t, x) /\ \A y \in 1..(x - 1) : ~ScoreMatchAt(t, y)
        d == SkipSpace(t, SkipSpace(t, DigitRunEnd(t, i) + 1) + 1)
    IN  SubSeq(t, i, DigitRunEnd(t, i)) \o <<":">> \o SubSeq(t, d, DigitRunEnd(t, d))

\* lines 113-118
scoreFotbal(text) ==
    LET score == TrimSpace(text)
    IN  IF ScoreFound(score) THEN ScoreFormat(score) ELSE score

\* lines 260-264
scoreIS(text) ==
    LET rawScore == TrimSpace(text)
    IN  IF ScoreFound(rawScore) THEN ScoreFormat(rawScore) ELSE <<>>

\* lines 752-760
scoreTable(text) ==
    LET scoreRaw == TrimSpace(text)
    IN  IF ScoreFound(scoreRaw) THEN ScoreFormat(scoreRaw) ELSE scoreRaw

ScoreFotbal ==
    /\ rowIn.site = "fotbal"
    /\ rowOut.status = "pending"
    /\ \E score \in {scoreFotbal(rowIn.text)} :
          rowOut' = [status |-> "scored", score |-> score, again |-> scoreFotbal(score)]
    /\ UNCHANGED <<rowIn, clubCtx, logoCache, gor, mapAcc, resolved, fatal, req>>

ScoreIS ==
    /\ rowIn.site = "is"
    /\ rowOut.status = "pending"
    /\ \E score \in {scoreIS(rowIn.text)} :
          rowOut' = [status |-> "scored", score |-> score, again |-> scoreIS(score)]
    /\ UNCHANGED <<rowIn, clubCtx, logoCache, gor, mapAcc, resolved, fatal, req>>

ScoreTable ==
    /\ rowIn.site = "table"
    /\ rowOut.status = "pending"
    /\ \E score \in {scoreTable(rowIn.text)} :
          rowOut' = [status |-> "scored", score |-> score, again |-> scoreTable(score)]
    /\ UNCHANGED <<rowIn, clubCtx, logoCache, gor, mapAcc, resolved, fatal, req>>

ScoreInit ==
    /\ rowIn \in [site : ScoreSites, text : ScoreTexts]
    /\ clubCtx = <<>>
    /\ rowOut = [status |-> "pending"]
    /\ logoCache = <<>>
    /\ gor = <<>>
    /\ mapAcc = <<>>
    /\ resolved = {}
    /\ fatal = FALSE
    /\ req = IdleReq

ScoreNext == ScoreFotbal \/ ScoreIS \/ ScoreTable

ScoreSpec == ScoreInit /\ [][ScoreNext]_vars

(***************************************************************************)
(* Spec: one request to the server, from an empty or a filled logo cache.  *)
(* getClubInfo and getClubTables validate the path variables, fetch the    *)
(* club page and list its competitions; getClubInfo then runs both match   *)
(* adapters per competition, one row callback per step, and assigns the    *)
(* competition's matches; getClubTables fetches the standings page per     *)
(* competition and parses its rows.  getClubSearch validates q and asks    *)
(* the upstream search, with one retry.                                    *)
(***************************************************************************)
FRow(home, away, homeID, awayID) ==
    [src |-> "fotbal", anchor |-> TRUE, href |-> <<>>, spans |-> <<home, away>>,
     imgs |-> <<homeID, awayID>>]

IRow(home, away, homeHref, awayHref) ==
    [src |-> "is", th |-> FALSE, ntd |-> MinISCells, home |-> home, away |-> away,
     homeHref |-> homeHref, awayHref |-> awayHref, links |-> <<>>]

IHeader ==
    [src |-> "is", th |-> TRUE, ntd |-> MinISCells, home |-> <<>>, away |-> <<>>,
     homeHref |-> NoID, awayHref |-> NoID, links |-> <<>>]

\* the li.MatchRound elements of a public competition page, in document order
FotbalDocPool ==
    << <<>>,
       <<FRow(nMost, nBrno, idX, idY), FRow(nBrno, nMost, idY, idX),
         FRow(nMost, nZlin, idX, idY), FRow(nZlin, nMost, idY, idX),
         FRow(nSKMostB, nMost, idY, idX)>>,
       <<FRow(nMost, nBrno, NoID, NoID), FRow(nBrno, nZlin, idY, idY)>>,
       <<FRow(nZlin, nMost, idY, idX)>> >>
FotbalDocs == {FotbalDocPool[i] : i \in 1..NumDocs}

\* the tr elements of table.soutez-zapasy of an internal-system page
ISDocPool ==
    << <<>>,
       <<IHeader, IRow(nMostParen, nBrno, idX, idY)>>,
       <<IHeader, IRow(nBrno, nZlin, idY, idY)>>,
       <<IRow(nZlin, nMostUpper, NoID, NoID), IRow(nBrno, nMost, idY, idX)>> >>
ISDocs == {ISDocPool[i] : i \in 1..NumDocs}

MinTableCells == 8

\* a tr of table.vysledky-tabulky: whether it holds a th, its number of td,
\* the team cell, what extractUUIDFromHref finds in its link, the score cell
TRow(team, teamID, score) ==
    [th |-> FALSE, ntd |-> MinTableCells, team |-> team, teamID |-> teamID, score |-> score]

THeader == [th |-> TRUE, ntd |-> 0, team |-> <<>>, teamID |-> NoID, score |-> <<>>]

TShort == [th |-> FALSE, ntd |-> MinTableCells - 1, team |-> nBrno, teamID |-> idY, score |-> <<>>]

\* a standings page: whether it holds the h3 of the overall table followed
\* by div.list.tabulky, and the tr elements of that table
TableDocPool ==
    << [section |-> FALSE, rows |-> <<>>],
       [section |-> TRUE,
        rows |-> <<THeader, TShort, TRow(nMost, idX, <<"5", " ", ":", " ", "0">>),
                   TRow(nBrno, NoID, <<"x">>)>>],
       [section |-> TRUE, rows |-> <<TRow(nVolno, NoID, <<"1", ":", "1">>)>>],
       [section |-> TRUE, rows |-> <<TRow(nZlin, idY, <<>>)>>] >>
TableDocs == {TableDocPool[i] : i \in 1..NumDocs}

\* the competition ids of the club page's table.Table rows, in page order
CompIDPool == <<"c1", "c2", "c3", "c4">>
CompIDs == {CompIDPool[i] : i \in 1..MaxComps}
Listings ==
    {l \in UNION {[1..n -> CompIDs] : n \in 0..MaxComps} :
        \A a \in 1..Len(l), b \in 1..Len(l) : a # b => l[a] # l[b]}

ClubTypes == {"football", "futsal", "hockey"}
FetchOutcomes == {"ok", "error", "non200", "unparsable"}
UpstreamErrors == {404, 503}

\* the q parameter of a search request
Queries == { <<>>, <<" ">>, <<"m", "o", "s", "t">>, <<"f", "k", " ", "m", "o", "s", "t">> }

\* the li.ListItemSplit elements of a search page: the href of the link
\* (empty when the item has none) and its name
SearchDocs ==
    { <<>>,
      <<[href |-> idX, name |-> nMost],
        [href |-> <<>>, name |-> nBrno],
        [href |-> idY, name |-> nSKMostB]>> }

\* the caches a request may find
InitCaches == { <<>>, CachePut(<<>>, CacheKey(nMost), logo1) }

NoTable == [present |-> FALSE, Overall |-> <<>>]

\* the type path variable as the text the adapters compare
ClubTypeText(clubType) == IF clubType = "futsal" THEN tFutsal ELSE tFootball

NewReq(handler, clubID, clubType, q) ==
    [pc |-> "start", handler |-> handler, clubID |-> clubID, clubType |-> clubType,
     q |-> q, q2 |-> <<>>, clubName |-> <<>>, status |-> 0,
     primary |-> [outcome |-> "none", code |-> 0], second |-> "none",
     listed |-> <<>>, competitions |-> <<>>, failed |-> <<>>, i |-> 1,
     rows |-> <<>>, matches |-> <<>>, isMatches |-> <<>>, overall |-> <<>>,
     results |-> <<>>, count |-> 0, fetches |-> 0, cache0 |-> logoCache]

\* the path variables with any club type let through
validClubRequestAnyType(clubID, clubType) == clubID # <<>>

\* lines 805-820 and 625-644: the path variables
validClubRequest(clubID, clubType) ==
    clubID # <<>> /\ clubType \in {"football", "futsal"}

\* lines 889-891 read as the comment of line 885 words them
reconcileByLength(matches, isMatches) ==
    IF Len(isMatches) >= Len(matches) THEN isMatches ELSE matches

\* lines 889-891
reconcile(matches, isMatches) ==
    IF Len(isMatches) > 0 THEN isMatches ELSE matches

\* on to competition i + 1, or to the response after the last one
NextCompetition(r, fetchPc) ==
    [r EXCEPT !.i = @ + 1,
              !.pc = IF r.i = Len(r.competitions) THEN "respond" ELSE fetchPc]

\* a failed standings fetch ending the request with an error
afterTableFailureAbort(r) == [r EXCEPT !.pc = "done", !.status = 500]

\* lines 707-721: the continue after a failed standings fetch
afterTableFailure(r) == NextCompetition(r, "fetchTable")

\* the retry with the query as it is, quoted or not
RetryQueryPlain(q) == q

\* lines 521-527: the retry URL quotes q when a word of q has at most 2 runes
RetryQuery(q) ==
    IF \E k \in 1..Len(Fields(q)) : Len(Fields(q)[k]) <= 2
    THEN <<"dquote">> \o q \o <<"dquote">>
    ELSE q

\* lines 561-604: the results of a search page, one per item with an href
SearchResults(doc) ==
    LET HasHref(li) == li.href # <<>>
        items == SelectSeq(doc, HasHref)
    IN  [k \in 1..Len(items) |-> [Name |-> items[k].name, ClubID |-> items[k].href]]

\* lines 802-820: getClubInfo and its path variables
GetClubInfoStart ==
    /\ req.pc = "idle"
    /\ \E clubID \in ClubIDs, clubType \in ClubTypes :
          req' = IF validClubRequest(clubID, clubType)
                 THEN [NewReq("info", clubID, clubType, <<>>) EXCEPT !.pc = "fetchClub"]
                 ELSE [NewReq("info", clubID, clubType, <<>>) EXCEPT
                          !.pc = "done", !.status = 400]
    /\ UNCHANGED <<rowIn, clubCtx, rowOut, logoCache, gor, mapAcc, resolved, fatal>>

\* lines 621-644: getClubTables and its path variables
GetClubTablesStart ==
    /\ req.pc = "idle"
    /\ \E clubID \in ClubIDs, clubType \in ClubTypes :
          req' = IF validClubRequest(clubID, clubType)
                 THEN [NewReq("tables", clubID, clubType, <<>>) EXCEPT !.pc = "fetchClub"]
                 ELSE [NewReq("tables", clubID, clubType, <<>>) EXCEPT
                          !.pc = "done", !.status = 400]
    /\ UNCHANGED <<rowIn, clubCtx, rowOut, logoCache, gor, mapAcc, resolved, fatal>>

\* lines 488-493: getClubSearch and its q parameter
GetClubSearchStart ==
    /\ req.pc = "idle"
    /\ \E q \in Queries :
          req' = IF TrimSpace(q) = <<>>
                 THEN [NewReq("search", NoID, "", q) EXCEPT !.pc = "done", !.status = 400]
                 ELSE [NewReq("search", NoID, "", TrimSpace(q)) EXCEPT !.pc = "searchFetch"]
    /\ UNCHANGED <<rowIn, clubCtx, rowOut, logoCache, gor, mapAcc, resolved, fatal>>

\* lines 822-877 and 646-700: the club page, the club name and the
\* competitions list
FetchClubPage ==
    /\ req.pc = "fetchClub"
    /\ \E outcome \in FetchOutcomes, code \in UpstreamErrors,
          clubName \in ClubNames, listing \in Listings :
          req' = CASE outcome \in {"error", "unparsable"} ->
                        [req EXCEPT !.pc = "done", !.status = 500, !.fetches = @ + 1,
                                    !.primary = [outcome |-> outcome, code |-> 0]]
                   [] outcome = "non200" ->
                        [req EXCEPT !.pc = "done", !.status = code, !.fetches = @ + 1,
                                    !.primary = [outcome |-> outcome, code |-> code]]
                   [] OTHER ->
                        [req EXCEPT
                            !.pc = IF listing = <<>> THEN "respond"
                                   ELSE IF req.handler = "info" THEN "fetchFotbal"
                                   ELSE "fetchTable",
                            !.clubName = IF req.handler = "info" THEN clubName ELSE <<>>,
                            !.listed = listing,
                            !.competitions =
                                [k \in 1..Len(listing) |->
                                    [ID |-> listing[k], Matches |-> <<>>, Table |-> NoTable]],
                            !.failed =
                                [k \in 1..Len(listing) |->
                                    [fotbal |-> FALSE, is |-> FALSE, table |-> FALSE]],
                            !.primary = [outcome |-> "ok", code |-> 200],
                            !.fetches = @ + 1]
    /\ UNCHANGED <<rowIn, clubCtx, rowOut, logoCache, gor, mapAcc, resolved, fatal>>

\* lines 884 and 33-81: the public page of competition i
FetchFotbal ==
    /\ req.pc = "fetchFotbal"
    /\ \E outcome \in FetchOutcomes, doc \in FotbalDocs :
          req' = [req EXCEPT
                    !.fetches = @ + 1,
                    !.failed[req.i].fotbal = outcome # "ok",
                    !.matches = <<>>,
                    !.isMatches = <<>>,
                    !.rows = IF outcome = "ok" THEN doc ELSE <<>>,
                    !.pc = IF outcome = "ok" /\ doc # <<>> THEN "rowsFotbal" ELSE "fetchIS"]
    /\ UNCHANGED <<rowIn, clubCtx, rowOut, logoCache, gor, mapAcc, resolved, fatal>>

\* lines 82-201: the callback on the next li.MatchRound
FotbalRow ==
    /\ req.pc = "rowsFotbal"
    /\ FotbalCallback(Head(req.rows), ClubTypeText(req.clubType), req.clubName, req.clubID)
    /\ req' = [req EXCEPT
                 !.rows = Tail(@),
                 !.matches = IF rowOut'.status = "kept" THEN Append(@, rowOut'.match) ELSE @,
                 !.pc = IF Len(req.rows) = 1 THEN "fetchIS" ELSE @]
    /\ UNCHANGED <<rowIn, clubCtx, gor, mapAcc, resolved, fatal>>

\* lines 886-887 and 206-246: the internal-system page of competition i
FetchIS ==
    /\ req.pc = "fetchIS"
    /\ \E outcome \in FetchOutcomes, doc \in ISDocs :
          req' = [req EXCEPT
                    !.fetches = @ + 1,
                    !.failed[req.i].is = outcome # "ok",
                    !.rows = IF outcome = "ok" THEN doc ELSE <<>>,
                    !.pc = IF outcome = "ok" /\ doc # <<>> THEN "rowsIS" ELSE "reconcile"]
    /\ UNCHANGED <<rowIn, clubCtx, rowOut, logoCache, gor, mapAcc, resolved, fatal>>

\* lines 247-325: the callback on the next tr
ISRow ==
    /\ req.pc = "rowsIS"
    /\ ISCallback(Head(req.rows), ClubTypeText(req.clubType), req.clubName, req.clubID)
    /\ req' = [req EXCEPT
                 !.rows = Tail(@),
                 !.isMatches = IF rowOut'.status = "kept" THEN Append(@, rowOut'.match) ELSE @,
                 !.pc = IF Len(req.rows) = 1 THEN "reconcile" ELSE @]
    /\ UNCHANGED <<rowIn, clubCtx, gor, mapAcc, resolved, fatal>>

\* lines 888-893: the competition's matches, and on to the next competition
Reconcile ==
    /\ req.pc = "reconcile"
    /\ req' = NextCompetition(
                 [req EXCEPT !.competitions[req.i].Matches =
                                 reconcile(req.matches, req.isMatches)],
                 "fetchFotbal")
    /\ UNCHANGED <<rowIn, clubCtx, rowOut, logoCache, gor, mapAcc, resolved, fatal>>

NoTableRow == [Team |-> <<>>, TeamID |-> NoID, TeamLogoURL |-> <<>>, Score |-> <<>>]

\* lines 738-765: the callback on a tr of the overall table
TableCallback(tr) ==
    IF tr.th \/ tr.ntd < MinTableCells
    THEN /\ rowOut' = [status |-> "skipped", row |-> NoTableRow]
         /\ logoCache' = logoCache
    ELSE \E o \in RowOracles, team \in {TrimSpace(tr.team)} :
         \E logo \in {getLogoSeq(team, tr.teamID, logoCache, o[1], o[2])} :
            /\ rowOut' = [status |-> "kept",
                          row |-> [Team |-> team, TeamID |-> tr.teamID,
                                   TeamLogoURL |-> logo.url,
                                   Score |-> scoreTable(tr.score)]]
            /\ logoCache' = logo.cache

\* lines 703-736: the standings page of competition i
FetchTable ==
    /\ req.pc = "fetchTable"
    /\ \E outcome \in FetchOutcomes, doc \in TableDocs :
          req' = IF outcome # "ok"
                 THEN afterTableFailure(
                          [req EXCEPT !.fetches = @ + 1, !.failed[req.i].table = TRUE])
                 ELSE [req EXCEPT
                          !.fetches = @ + 1,
                          !.overall = <<>>,
                          !.rows = IF doc.section THEN doc.rows ELSE <<>>,
                          !.pc = IF doc.section /\ doc.rows # <<>>
                                 THEN "rowsTable" ELSE "assignTable"]
    /\ UNCHANGED <<rowIn, clubCtx, rowOut, logoCache, gor, mapAcc, resolved, fatal>>

\* lines 738-765: the callback on the next tr
TableRowStep ==
    /\ req.pc = "rowsTable"
    /\ TableCallback(Head(req.rows))
    /\ req' = [req EXCEPT
                 !.rows = Tail(@),
                 !.overall = IF rowOut'.status = "kept" THEN Append(@, rowOut'.row) ELSE @,
                 !.pc = IF Len(req.rows) = 1 THEN "assignTable" ELSE @]
    /\ UNCHANGED <<rowIn, clubCtx, gor, mapAcc, resolved, fatal>>

\* lines 773-775: the competition's table, and on to the next competition
AssignTable ==
    /\ req.pc = "assignTable"
    /\ req' = NextCompetition(
                 [req EXCEPT !.competitions[req.i].Table =
                                 [present |-> TRUE, Overall |-> req.overall]],
                 "fetchTable")
    /\ UNCHANGED <<rowIn, clubCtx, rowOut, logoCache, gor, mapAcc, resolved, fatal>>

\* lines 895-908 and 777-797: the JSON response
Respond ==
    /\ req.pc = "respond"
    /\ req' = [req EXCEPT !.pc = "done", !.status = 200]
    /\ UNCHANGED <<rowIn, clubCtx, rowOut, logoCache, gor, mapAcc, resolved, fatal>>

\* lines 494-516 and 555-617: the first upstream request of a search
SearchFetch ==
    /\ req.pc = "searchFetch"
    /\ \E outcome \in FetchOutcomes, doc \in SearchDocs :
          req' = CASE outcome \in {"error", "unparsable"} ->
                        [req EXCEPT !.pc = "done", !.status = 500, !.fetches = @ + 1,
                                    !.primary.outcome = outcome]
                   [] outcome = "non200" ->
                        [req EXCEPT !.pc = "searchRetry", !.q2 = RetryQuery(req.q),
                                    !.fetches = @ + 1, !.primary.outcome = outcome]
                   [] OTHER ->
                        [req EXCEPT !.pc = "done", !.status = 200, !.fetches = @ + 1,
                                    !.primary.outcome = outcome,
                                    !.results = SearchResults(doc),
                                    !.count = Len(SearchResults(doc))]
    /\ UNCHANGED <<rowIn, clubCtx, rowOut, logoCache, gor, mapAcc, resolved, fatal>>

\* lines 517-617: the retry after a non-200 answer
SearchRetry ==
    /\ req.pc = "searchRetry"
    /\ \E outcome \in FetchOutcomes, doc \in SearchDocs :
          req' = CASE outcome = "error" ->
                        [req EXCEPT !.pc = "done", !.status = 502, !.fetches = @ + 1,
                                    !.second = outcome]
                   [] outcome = "unparsable" ->
                        [req EXCEPT !.pc = "done", !.status = 500, !.fetches = @ + 1,
                                    !.second = outcome]
                   [] outcome = "non200" ->
                        [req EXCEPT !.pc = "done", !.status = 200, !.fetches = @ + 1,
                                    !.second = outcome,
                                    !.results = <<>>, !.count = 0]
                   [] OTHER ->
                        [req EXCEPT !.pc = "done", !.status = 200, !.fetches = @ + 1,
                                    !.second = outcome,
                                    !.results = SearchResults(doc),
                                    !.count = Len(SearchResults(doc))]
    /\ UNCHANGED <<rowIn, clubCtx, rowOut, logoCache, gor, mapAcc, resolved, fatal>>

Init ==
    /\ rowIn = <<>>
    /\ clubCtx = <<>>
    /\ rowOut = RowPending
    /\ logoCache \in InitCaches
    /\ gor = <<>>
    /\ mapAcc = <<>>
    /\ resolved = {}
    /\ fatal = FALSE
    /\ req = IdleReq

Next ==
    \/ GetClubInfoStart \/ GetClubTablesStart \/ GetClubSearchStart
    \/ FetchClubPage
    \/ FetchFotbal \/ FotbalRow
    \/ FetchIS \/ ISRow
    \/ Reconcile
    \/ FetchTable \/ TableRowStep \/ AssignTable
    \/ Respond
    \/ SearchFetch \/ SearchRetry

Spec == Init /\ [][Next]_vars

(***************************************************************************)
(* The rules of the involvement filter as the specification words them     *)
(* (sections 4.2 and 4.5), over the fields the callback extracted.         *)
(***************************************************************************)
Normalize(t) == ToLower(TrimSpace(t))

\* fold_contains(a, b): normalized b is a non-empty substring of normalized a
FoldContains(a, b) == Normalize(b) # <<>> /\ Contains(Normalize(a), Normalize(b))

SameFolded(a, b) == ToLower(a) = ToLower(b)

RowDecided == rowOut.status \in {"kept", "dropped"}
RowKept == rowOut.status = "kept"
ClubGiven == clubCtx.clubName # <<>> \/ clubCtx.clubID # <<>>

\* (a) club_id is non-empty and equals the home or away identifier
RuleID ==
    /\ clubCtx.clubID # <<>>
    /\ \/ SameFolded(rowOut.fields.homeID, clubCtx.clubID)
       \/ SameFolded(rowOut.fields.awayID, clubCtx.clubID)

\* (b) equality, or containment in either direction, for one team name
NameMatches(team) ==
    \/ SameFolded(team, clubCtx.clubName)
    \/ FoldContains(team, clubCtx.clubName)
    \/ FoldContains(clubCtx.clubName, team)

RuleName == NameMatches(rowOut.fields.home) \/ NameMatches(rowOut.fields.away)

\* (c) the simplified token is a non-empty substring of one team name
TokenMatches(team) ==
    /\ simplifyClubQuery(clubCtx.clubName) # <<>>
    /\ FoldContains(team, simplifyClubQuery(clubCtx.clubName))

RuleToken == TokenMatches(rowOut.fields.home) \/ TokenMatches(rowOut.fields.away)

\* C2, as claimed: under a club context a row is retained by either adapter
\* exactly when rule (a), (b) or (c) holds of it.
C2_RetainedIffAnyRule ==
    (ClubGiven /\ RowDecided) => (RowKept <=> (RuleID \/ RuleName \/ RuleToken))

\* C2, amended: under a club context a row is retained by either adapter
\* exactly when rule (a) holds, or club_name is non-empty and rule (b) or
\* (c) holds; with an empty club_name only the identifier rule admits a row.
C2_RetainedIffRuleWithName ==
    (ClubGiven /\ RowDecided) =>
        (RowKept <=> (RuleID \/ (clubCtx.clubName # <<>> /\ (RuleName \/ RuleToken))))

\* a row admitted by the token rule alone
C2_Witness == RowKept /\ ClubGiven /\ RuleToken /\ ~RuleID /\ ~RuleName

\* C3, as claimed: with club_id known, a row with an identifier equal to it is
\* involved whatever its names, and a row whose two identifiers are both
\* known and both differ from it is not admitted by a name.
BothIDsKnown == rowOut.fields.homeID # NoID /\ rowOut.fields.awayID # NoID

C3_IdentifiersDecide ==
    (clubCtx.clubID # <<>> /\ RowDecided) =>
        /\ RuleID => RowKept
        /\ (BothIDsKnown /\ ~RuleID) => ~RowKept

\* C4: with no club context every row that passed field extraction is
\* retained, and backfill changes no identifier.
PassedExtraction ==
    IF rowIn.src = "fotbal"
    THEN Len(SelectSeq(rowIn.spans, LAMBDA t : TrimSpace(t) # <<>>)) >= 2
    ELSE ~rowIn.th /\ rowIn.ntd >= 5

C4_NoClubFilterKeepsAll ==
    (~ClubGiven /\ rowOut.status # "pending") =>
        /\ RowKept <=> PassedExtraction
        /\ RowKept => /\ rowOut.match.HomeID = rowOut.fields.homeID
                      /\ rowOut.match.AwayID = rowOut.fields.awayID

C4_Witness == ~ClubGiven /\ RowKept /\ rowOut.fields.homeID = NoID /\ rowIn.src = "fotbal"

\* C5: in a retained row a side with an extracted identifier keeps it, a
\* side without one gets club_id when its name matches the club by the name
\* rules or the token rule and stays empty otherwise; a row that was not
\* retained yields no match at all.
BackfilledSide(team, extracted, final) ==
    IF extracted # NoID THEN final = extracted
    ELSE IF NameMatches(team) \/ TokenMatches(team) THEN final = clubCtx.clubID
    ELSE final = NoID

C5_Backfill ==
    /\ RowKept =>
          /\ BackfilledSide(rowOut.fields.home, rowOut.fields.homeID, rowOut.match.HomeID)
          /\ BackfilledSide(rowOut.fields.away, rowOut.fields.awayID, rowOut.match.AwayID)
    /\ ~RowKept => rowOut.match = NoMatch

\* the home side had no identifier and received the club's, the away side
\* kept the one extracted for it
C5_Witness ==
    /\ RowKept
    /\ rowOut.fields.homeID = NoID /\ rowOut.match.HomeID = idX
    /\ rowOut.fields.awayID = idY /\ rowOut.match.AwayID = idY

(***************************************************************************)
(* LogoSpec: the goroutines of the HTTP server calling getLogo.  net/http  *)
(* serves every request on a goroutine of its own and logoCache is a plain *)
(* map with no lock, so the steps of getLogoBySearch interleave: a map     *)
(* read (line 379) and a map write (line 435) each take a begin and an end *)
(* step, and the searches are the blocking calls between them.             *)
(***************************************************************************)
Goroutines == {"g1", "g2"}

LogoNames == {nMost, <<" ">> \o nMostUpper, nBrno, nVolno, <<>>}
LogoIDs == {NoID, idX}

IdleGor ==
    [pc |-> "idle", teamName |-> <<>>, teamID |-> NoID, path |-> "none",
     payload |-> <<>>, best |-> NoLogo, ret |-> NoLogo, url |-> <<>>,
     nSearch |-> 0, nMapOps |-> 0, late |-> FALSE, calls |-> 0, overlap |-> FALSE]

\* the goroutine is inside getLogoBySearch
InSearch(g) == gor[g].pc \notin {"idle", "returned"}

\* the getLogo calls started so far by the goroutines of S
RECURSIVE CallsOf(_)
CallsOf(S) ==
    IF S = {} THEN 0
    ELSE LET g == CHOOSE x \in S : TRUE
         IN  gor[g].calls + CallsOf(S \ {g})

\* a write is in progress while another goroutine is inside the map
MapRace ==
    \E g \in Goroutines, h \in Goroutines :
        g # h /\ mapAcc[g] = "write" /\ mapAcc[h] # "none"

\* lines 440-451: getLogo up to its return or its call of getLogoBySearch
GetLogoCall(g) ==
    /\ ~fatal
    /\ gor[g].pc \in {"idle", "returned"}
    /\ CallsOf(Goroutines) < MaxCalls
    /\ \E teamName \in LogoNames, teamID \in LogoIDs :
        \E path \in {getLogoPath(teamName, teamID)} :
            gor' = [h \in Goroutines |->
                IF h = g
                THEN [IdleGor EXCEPT
                        !.teamName = teamName, !.teamID = teamID, !.path = path,
                        !.calls = gor[g].calls + 1,
                        !.late = path = "bySearch" /\ CacheKey(teamName) \in resolved,
                        !.overlap = path = "bySearch"
                                    /\ \E x \in Goroutines \ {g} : InSearch(x),
                        !.pc = IF path = "bySearch" THEN "lookup" ELSE "returned",
                        !.url = CASE path = "placeholder" -> Placeholder
                                  [] path = "byID" -> IDLogoURL(TrimSpace(teamID))
                                  [] OTHER -> <<>>]
                ELSE IF path = "bySearch" /\ InSearch(h)
                     THEN [gor[h] EXCEPT !.overlap = TRUE]
                     ELSE gor[h]]
    /\ UNCHANGED <<rowIn, clubCtx, rowOut, logoCache, mapAcc, resolved, fatal, req>>

\* lines 375-379: the key, and the start of the map read
MapReadBegin(g) ==
    /\ ~fatal
    /\ gor[g].pc = "lookup"
    /\ IF CacheKey(gor[g].teamName) = <<>>
       THEN /\ gor' = [gor EXCEPT ![g].ret = NoLogo, ![g].pc = "back"]
            /\ UNCHANGED mapAcc
       ELSE /\ gor' = [gor EXCEPT ![g].pc = "reading"]
            /\ mapAcc' = [mapAcc EXCEPT ![g] = "read"]
    /\ UNCHANGED <<rowIn, clubCtx, rowOut, logoCache, resolved, fatal, req>>

\* what a read may find: the map, or the map with a write that is in
\* progress on another goroutine already applied
MapViews(g) ==
    {logoCache} \cup
    {CachePut(logoCache, CacheKey(gor[h].teamName), gor[h].best) :
        h \in {x \in Goroutines : x # g /\ mapAcc[x] = "write"}}

\* lines 379-381: the end of the map read, and the return on a hit
MapReadEnd(g) ==
    /\ ~fatal
    /\ gor[g].pc = "reading"
    /\ \E seen \in MapViews(g), key \in {CacheKey(gor[g].teamName)} :
          gor' = [gor EXCEPT
                    ![g].nMapOps = @ + 1,
                    ![g].ret = IF key \in DOMAIN seen THEN seen[key] ELSE NoLogo,
                    ![g].pc = IF key \in DOMAIN seen THEN "back" ELSE "search1"]
    /\ mapAcc' = [mapAcc EXCEPT ![g] = "none"]
    /\ UNCHANGED <<rowIn, clubCtx, rowOut, logoCache, resolved, fatal, req>>

\* line 407: doSearch(query), the simplified token
SearchToken(g) ==
    /\ ~fatal
    /\ gor[g].pc = "search1"
    /\ \E o \in SearchOutcomes :
          gor' = [gor EXCEPT
                    ![g].nSearch = @ + 1,
                    ![g].payload = IF o.ok THEN o.results ELSE <<>>,
                    ![g].pc = IF ~o.ok \/ Len(o.results) = 0 THEN "search2" ELSE "select"]
    /\ UNCHANGED <<rowIn, clubCtx, rowOut, logoCache, mapAcc, resolved, fatal, req>>

\* lines 410-413: doSearch(name), and the return when it fails
SearchFullName(g) ==
    /\ ~fatal
    /\ gor[g].pc = "search2"
    /\ \E o \in SearchOutcomes :
          gor' = [gor EXCEPT
                    ![g].nSearch = @ + 1,
                    ![g].payload = IF o.ok THEN o.results ELSE <<>>,
                    ![g].ret = NoLogo,
                    ![g].pc = IF ~o.ok THEN "back" ELSE "select"]
    /\ UNCHANGED <<rowIn, clubCtx, rowOut, logoCache, mapAcc, resolved, fatal, req>>

\* lines 415-435: the selection, and the start of the map write
MapWriteBegin(g) ==
    /\ ~fatal
    /\ gor[g].pc = "select"
    /\ gor' = [gor EXCEPT
                 ![g].best = PickBest(gor[g].payload, gor[g].teamName,
                                      CacheKey(gor[g].teamName)),
                 ![g].pc = "writing"]
    /\ mapAcc' = [mapAcc EXCEPT ![g] = "write"]
    /\ UNCHANGED <<rowIn, clubCtx, rowOut, logoCache, resolved, fatal, req>>

\* lines 435-436: the end of the map write, and the return
MapWriteEnd(g) ==
    /\ ~fatal
    /\ gor[g].pc = "writing"
    /\ logoCache' = CachePut(logoCache, CacheKey(gor[g].teamName), gor[g].best)
    /\ gor' = [gor EXCEPT ![g].nMapOps = @ + 1, ![g].ret = gor[g].best, ![g].pc = "back"]
    /\ mapAcc' = [mapAcc EXCEPT ![g] = "none"]
    /\ UNCHANGED <<rowIn, clubCtx, rowOut, resolved, fatal, req>>

\* lines 451-455: back in getLogo
GetLogoReturn(g) ==
    /\ ~fatal
    /\ gor[g].pc = "back"
    /\ gor' = [gor EXCEPT
                 ![g].url = getLogoResult(gor[g].ret),
                 ![g].payload = <<>>,
                 ![g].best = NoLogo,
                 ![g].pc = "returned"]
    /\ resolved' = resolved \cup {CacheKey(gor[g].teamName)}
    /\ UNCHANGED <<rowIn, clubCtx, rowOut, logoCache, mapAcc, fatal, req>>

\* the runtime's check of concurrent map access ends the process when it
\* catches the race; it need not catch it
RuntimeThrow ==
    /\ ~fatal
    /\ MapRace
    /\ fatal' = TRUE
    /\ UNCHANGED <<rowIn, clubCtx, rowOut, logoCache, gor, mapAcc, resolved, req>>

LogoInit ==
    /\ rowIn = <<>>
    /\ clubCtx = <<>>
    /\ rowOut = RowPending
    /\ logoCache = <<>>
    /\ gor = [g \in Goroutines |-> IdleGor]
    /\ mapAcc = [g \in Goroutines |-> "none"]
    /\ resolved = {}
    /\ fatal = FALSE
    /\ req = IdleReq

LogoNext ==
    \/ \E g \in Goroutines :
          \/ GetLogoCall(g) \/ MapReadBegin(g) \/ MapReadEnd(g)
          \/ SearchToken(g) \/ SearchFullName(g)
          \/ MapWriteBegin(g) \/ MapWriteEnd(g) \/ GetLogoReturn(g)
    \/ RuntimeThrow

LogoSpec == LogoInit /\ [][LogoNext]_vars

(***************************************************************************)
(* Logo resolution (LogoSpec)                                              *)
(***************************************************************************)
Returned(g) == gor[g].pc = "returned"

NoNetworkNoCache(g) == gor[g].nSearch = 0 /\ gor[g].nMapOps = 0

\* C6: a getLogo call whose normalized team name is empty or holds a
\* no-opponent marker returns the placeholder, whatever the team id; any
\* other call with a non-empty team id returns the URL templated from the
\* id; neither issues a search nor reads or writes the logo cache, and this
\* holds in every state of the cache.
C6_NoNetworkPaths ==
    \A g \in Goroutines :
        Returned(g) =>
            /\ IsNoOpponent(gor[g].teamName) =>
                  gor[g].url = Placeholder /\ NoNetworkNoCache(g)
            /\ (~IsNoOpponent(gor[g].teamName) /\ gor[g].teamID # NoID) =>
                  gor[g].url = IDLogoURL(gor[g].teamID) /\ NoNetworkNoCache(g)

\* a no-opponent name called with a team id while the cache holds entries
C6_Witness ==
    \E g \in Goroutines :
        /\ Returned(g)
        /\ gor[g].teamName = nVolno
        /\ gor[g].teamID = idX
        /\ gor[g].url = Placeholder
        /\ DOMAIN logoCache # {}

\* C7: a getLogo call by name that starts after a resolution of the same
\* normalized key has completed issues no search: it is answered from the
\* cache, whatever the outcome of the first resolution was.
C7_LaterCallsFromCache ==
    \A g \in Goroutines : gor[g].late => gor[g].nSearch = 0

\* C8: when a name-based resolution has completed, the cache holds an
\* entry under the normalized team name, and the entry is the outcome of
\* the resolution (the empty sentinel when no logo was found).
C8_OutcomeCached ==
    \A g \in Goroutines :
        (Returned(g) /\ gor[g].path = "bySearch") =>
            /\ CacheKey(gor[g].teamName) \in DOMAIN logoCache
            /\ gor[g].ret = NoLogo => logoCache[CacheKey(gor[g].teamName)] = NoLogo

\* C9: no state has one goroutine writing the logo cache while another
\* reads or writes it, and the map is never corrupted.
C9_CacheAccessExcluded == ~MapRace /\ ~fatal

\* the selection as the three rules state it: an earlier rule that matches
\* decides, whatever the logo of the matched result
FirstRuleThatMatches(results, teamName) ==
    LET IsExact(r) == SameFolded(Normalize(r.name), Normalize(teamName))
        IsNear(r) == Contains(ToLower(r.name), Normalize(teamName))
                        \/ Contains(Normalize(teamName), ToLower(r.name))
        e == FirstHit({i \in 1..Len(results) : IsExact(results[i])})
        n == FirstHit({i \in 1..Len(results) : IsNear(results[i])})
    IN  IF e > 0 THEN results[e].logo
        ELSE IF n > 0 THEN results[n].logo
        ELSE IF Len(results) > 0 THEN results[1].logo
        ELSE NoLogo

\* C10: the logo chosen from a result list is that of the first result
\* whose name equals the resolved name case-insensitively if there is one,
\* else that of the first result whose name contains the name or is
\* contained in it, else that of the first result; the earlier rule wins
\* also when the logo of its result is empty.
C10_EarlierRuleWins ==
    \A g \in Goroutines :
        gor[g].pc = "writing" =>
            gor[g].best = FirstRuleThatMatches(gor[g].payload, gor[g].teamName)

(***************************************************************************)
(* Reconciliation (Spec)                                                   *)
(***************************************************************************)
\* a competition has its matches assigned and the lists of the two
\* adapters for it are still at hand
Assigned ==
    /\ req.pc \in {"fetchFotbal", "respond", "done"}
    /\ req.handler = "info"
    /\ req.i > 1

ClubRequest == req.pc # "idle" /\ req.handler \in {"info", "tables"}

PastClubPage == ClubRequest /\ req.primary.outcome = "ok"

ListedIDs == [k \in 1..Len(req.competitions) |-> req.competitions[k].ID]

FetchesPerCompetition == IF req.handler = "info" THEN 2 ELSE 1

\* C13: once the club page is read, no failure of a per-competition fetch
\* ends the request or changes its status: the request ends with status
\* 200, the competitions of the response are those of the club page in page
\* order, every competition had its fetches made, and a competition whose
\* fetches failed carries no matches (getClubInfo) or no table
\* (getClubTables).
C13_FailureIsolation ==
    PastClubPage =>
        /\ req.status \in {0, 200}
        /\ ListedIDs = req.listed
        /\ req.pc = "done" =>
              /\ req.status = 200
              /\ req.fetches = 1 + FetchesPerCompetition * Len(req.listed)
              /\ \A k \in 1..Len(req.listed) :
                    /\ (req.failed[k].fotbal /\ req.failed[k].is) =>
                          req.competitions[k].Matches = <<>>
                    /\ req.failed[k].table => ~req.competitions[k].Table.present

\* a standings request answered 200 whose first competition lost its table
\* to a failed fetch and whose second competition has its rows
C13_Witness ==
    /\ PastClubPage
    /\ req.pc = "done"
    /\ req.handler = "tables"
    /\ req.status = 200
    /\ Len(req.listed) = 2
    /\ req.failed[1].table
    /\ ~req.competitions[1].Table.present
    /\ req.competitions[2].Table.present
    /\ req.competitions[2].Table.Overall # <<>>

BadClubType == ClubRequest /\ req.clubType \notin {"football", "futsal"}

BlankQuery == req.pc # "idle" /\ req.handler = "search" /\ TrimSpace(req.q) = <<>>

ClubPageFailed == ClubRequest /\ req.primary.outcome \in {"error", "non200"}

\* C14: a club request with a type other than football and futsal, and a
\* search request with a blank q, are answered 400 with no outbound fetch; a
\* club request whose club-page fetch fails in transport is answered 500,
\* and one whose club-page fetch is answered non-200 is answered with that
\* status; in all these cases no per-competition fetch is made and the logo
\* cache is as the request found it.
C14_RequestErrorsStopEarly ==
    /\ (BadClubType \/ BlankQuery) =>
          req.pc = "done" /\ req.status = 400 /\ req.fetches = 0
    /\ ClubPageFailed =>
          /\ req.pc = "done"
          /\ req.fetches = 1
          /\ req.primary.outcome = "error" => req.status = 500
          /\ req.primary.outcome = "non200" => req.status = req.primary.code
    /\ (BadClubType \/ BlankQuery \/ ClubPageFailed) =>
          /\ req.competitions = <<>>
          /\ logoCache = req.cache0

\* the club page answered 503 to a request that found a filled cache
C14_Witness ==
    /\ ClubPageFailed
    /\ req.primary.outcome = "non200"
    /\ req.status = 503
    /\ DOMAIN logoCache # {}

(***************************************************************************)
(* UUIDSpec: extractUUIDFromHref on one href.  The href is a concatenation *)
(* of at most MaxPieces pieces of a pool that holds identifiers, texts     *)
(* that miss the shape by one character, path prefixes and white space.    *)
(***************************************************************************)
MaxPieces == 3       \* pieces an href is concatenated from

uuid1 == <<"3", "f", "a", "8", "5", "f", "6", "4", "-", "5", "7", "1", "7", "-", "4", "5", "6", "2", "-", "b", "3", "f", "c", "-", "2", "c", "9", "6", "3", "f", "6", "6", "a", "f", "a", "6">>
uuid2 == <<"A", "A", "A", "A", "A", "A", "A", "A", "-", "0", "0", "0", "0", "-", "1", "1", "1", "1", "-", "2", "2", "2", "2", "-", "b", "b", "b", "b", "b", "b", "b", "b", "b", "b", "b", "b">>
\* one character short of the shape
nearShort == <<"3", "f", "a", "8", "5", "f", "6", "4", "-", "5", "7", "1", "7", "-", "4", "5", "6", "2", "-", "b", "3", "f", "c", "-", "2", "c", "9", "6", "3", "f", "6", "6", "a", "f", "a">>
\* one character outside the class
nearBadChar == <<"3", "f", "a", "8", "5", "f", "6", "g", "-", "5", "7", "1", "7", "-", "4", "5", "6", "2", "-", "b", "3", "f", "c", "-", "2", "c", "9", "6", "3", "f", "6", "6", "a", "f", "a", "6">>

HrefPiecePool ==
    << uuid1, <<"/", "c", "l", "u", "b", "/">>, uuid2, nearShort, nearBadChar,
       <<"6">>, <<" ">>, <<"n", "o", "-", "i", "d", "-", "h", "e", "r", "e">> >>
HrefPieces == {HrefPiecePool[i] : i \in 1..Len(HrefPiecePool)}

RECURSIVE Concat(_)
Concat(ps) == IF ps = <<>> THEN <<>> ELSE Head(ps) \o Concat(Tail(ps))

Hrefs == {Concat(ps) : ps \in UNION {[1..n -> HrefPieces] : n \in 0..MaxPieces}}

ExtractUUID ==
    /\ rowOut.status = "pending"
    /\ \E id \in {extractUUIDFromHref(rowIn.href)} :
          rowOut' = [status |-> "extracted", id |-> id]
    /\ UNCHANGED <<rowIn, clubCtx, logoCache, gor, mapAcc, resolved, fatal, req>>

UUIDInit ==
    /\ rowIn \in {[src |-> "href", href |-> h] : h \in Hrefs}
    /\ clubCtx = <<>>
    /\ rowOut = RowPending
    /\ logoCache = <<>>
    /\ gor = <<>>
    /\ mapAcc = <<>>
    /\ resolved = {}
    /\ fatal = FALSE
    /\ req = IdleReq

UUIDNext == ExtractUUID

UUIDSpec == UUIDInit /\ [][UUIDNext]_vars

(***************************************************************************)
(* The identifier shape as the specification words it                      *)
(***************************************************************************)
Extracted == rowOut.status = "extracted"

\* 36 characters: hexadecimal groups of 8, 4, 4, 4 and 12 joined by hyphens
HasUUIDShape(t) ==
    /\ Len(t) = 36
    /\ \A p \in 1..36 :
          IF p \in {9, 14, 19, 24} THEN t[p] = "-" ELSE t[p] \in HexChars

ShapeStarts(s) == {i \in 1..Len(s) : i + 35 <= Len(s) /\ HasUUIDShape(SubSeq(s, i, i + 35))}

Min(S) == CHOOSE x \in S : \A y \in S : x <= y

FinalSegment(s) ==
    LET cuts == {i \in 1..Len(s) : s[i] = "/"}
    IN  IF cuts = {} THEN s ELSE SubSeq(s, (CHOOSE i \in cuts : \A j \in cuts : j <= i) + 1, Len(s))

\* C15: extractUUIDFromHref returns the leftmost substring of the input that
\* has the 8-4-4-4-12 hexadecimal shape; without one it returns the final
\* "/"-separated segment when that segment alone has the shape, and the empty
\* text otherwise; so the result is empty or exactly of the shape.
C15_LeftmostUUID ==
    Extracted =>
        /\ rowOut.id = <<>> \/ HasUUIDShape(rowOut.id)
        /\ rowOut.id =
              IF ShapeStarts(rowIn.href) # {}
              THEN SubSeq(rowIn.href, Min(ShapeStarts(rowIn.href)),
                                      Min(ShapeStarts(rowIn.href)) + 35)
              ELSE IF HasUUIDShape(FinalSegment(rowIn.href))
                   THEN FinalSegment(rowIn.href)
                   ELSE <<>>

\* an href with two identifiers behind a path, the leftmost of them returned
C15_Witness ==
    /\ Extracted
    /\ rowIn.href = HrefPiecePool[2] \o uuid2 \o uuid1
    /\ rowOut.id = uuid2

(***************************************************************************)
(* QuerySpec: simplifyClubQuery on one club name.  The name is at most     *)
(* MaxWords words of a pool, joined by single spaces.                      *)
(***************************************************************************)
MaxWords == 4        \* words of a club name

wTJ == <<"T", "J">>
wSokol == <<"S", "o", "k", "o", "l">>
wKrnov == <<"K", "r", "n", "o", "v">>
wZS == <<"z", ".", "s", ".">>
wFC == <<"F", "C">>
wViktoria == <<"V", "i", "k", "t", "o", "r", "i", "a">>
wSpolek == <<"(", "S", "p", "o", "l", "e", "k", ")">>
wDigits == <<"1", "2", "3">>
wDash == <<"-">>

WordPool == <<wTJ, wSokol, wKrnov, wZS, wFC, wViktoria, wSpolek, wDigits, wDash>>
QueryWords == {WordPool[i] : i \in 1..Len(WordPool)}

RECURSIVE JoinWords(_)
JoinWords(ws) ==
    IF ws = <<>> THEN <<>>
    ELSE IF Len(ws) = 1 THEN ws[1]
    ELSE ws[1] \o <<" ">> \o JoinWords(Tail(ws))

QueryNames == {JoinWords(ws) : ws \in UNION {[1..n -> QueryWords] : n \in 0..MaxWords}}

SimplifyQuery ==
    /\ rowOut.status = "pending"
    /\ \E tok \in {simplifyClubQuery(rowIn.name)} :
          rowOut' = [status |-> "simplified", token |-> tok]
    /\ UNCHANGED <<rowIn, clubCtx, logoCache, gor, mapAcc, resolved, fatal, req>>

QueryInit ==
    /\ rowIn \in {[src |-> "name", name |-> n] : n \in QueryNames}
    /\ clubCtx = <<>>
    /\ rowOut = RowPending
    /\ logoCache = <<>>
    /\ gor = <<>>
    /\ mapAcc = <<>>
    /\ resolved = {}
    /\ fatal = FALSE
    /\ req = IdleReq

QueryNext == SimplifyQuery

QuerySpec == QueryInit /\ [][QueryNext]_vars

(***************************************************************************)
(* The search token as the specification words it                          *)
(***************************************************************************)
Simplified == rowOut.status = "simplified"

NameWords == Fields(rowIn.name)

Sanitized(w) == ToLower(TrimCut(w))

IsStopWord(w) == Sanitized(w) \in StopWords

Qualifies(w) == ~IsStopWord(w) /\ Len(Sanitized(w)) >= 3 /\ HasLetter(Sanitized(w))

QualifyingAt == {k \in 1..Len(NameWords) : Qualifies(NameWords[k])}

LastOf(S) == CHOOSE x \in S : \A y \in S : y <= x

krnov == <<"k", "r", "n", "o", "v">>
viktoria == <<"v", "i", "k", "t", "o", "r", "i", "a">>

\* C16: simplifyClubQuery returns, sanitized and lower-cased, the last word of
\* the name that is no stopword, has at least 3 characters and holds a letter;
\* without such a word it returns the sanitized last word; "TJ Sokol Krnov
\* z.s." gives "krnov", "FC Viktoria" gives "viktoria", and the result is no
\* stopword when some word qualifies.
C16_SimplifiedToken ==
    Simplified =>
        /\ rowOut.token =
              IF QualifyingAt # {} THEN Sanitized(NameWords[LastOf(QualifyingAt)])
              ELSE IF NameWords # <<>> THEN Sanitized(NameWords[Len(NameWords)])
              ELSE <<>>
        /\ QualifyingAt # {} => rowOut.token \notin StopWords
        /\ rowIn.name = JoinWords(<<wTJ, wSokol, wKrnov, wZS>>) => rowOut.token = krnov
        /\ rowIn.name = JoinWords(<<wFC, wViktoria>>) => rowOut.token = viktoria

\* "TJ Sokol Krnov z.s." simplified to "krnov"
C16_Witness ==
    /\ Simplified
    /\ rowIn.name = JoinWords(<<wTJ, wSokol, wKrnov, wZS>>)
    /\ rowOut.token = krnov

(***************************************************************************)
(* C17: team names of the returned matches                                 *)
(***************************************************************************)
HasParen(t) == \E i \in 1..Len(t) : t[i] = "("

\* the names of a match kept by the internal-system adapter hold no "("
C17_ISNamesTruncated ==
    (RowKept /\ rowIn.src = "is") =>
        ~HasParen(rowOut.match.Home) /\ ~HasParen(rowOut.match.Away)

\* C17: in the output of both adapters each team name is the cell text cut at
\* its first "(" and trimmed, so no home or away name of a returned match
\* holds a "(".
C17_NamesTruncated ==
    RowKept => ~HasParen(rowOut.match.Home) /\ ~HasParen(rowOut.match.Away)

(***************************************************************************)
(* URLSpec: resolveISURL on one href.  A URL is a text; url.Parse,         *)
(* URL.Query, Values.Encode and URL.String are written for the characters  *)
(* the hrefs of the pool hold (no "%", no "#", no user info).              *)
(***************************************************************************)
MaxParams == 2       \* query parameters of an href

\* what an href starts with: nothing, relative steps, a scheme and a host
HrefPrefixes ==
    { <<>>, tDotSlash, tDotDotSlash \o tDotDotSlash, <<" ">>,
      tHttps \o tISHost, tHttp \o <<"w", "w", "w", ".", "f", "o", "t", "b", "a", "l", ".", "c", "z">>, tHttp \o <<"[", "i", "s">> }

HrefPaths == { <<"/", "p", "u", "b", "l", "i", "c", "/", "r", ".", "a", "s", "p", "x">>, <<"/", "z", "a", "p", "a", "s", "y", "/", "r", ".", "a", "s", "p", "x">>, <<"/", "s", "o", "u", "t", "e", "z", "e", "/", "r", ".", "a", "s", "p", "x">>, <<"r", ".", "a", "s", "p", "x">> }

pZapas == <<"z", "a", "p", "a", "s", "=", "1">>
pDiscipline == <<"d", "i", "s", "c", "i", "p", "l", "i", "n", "e", "=", "a">>
pID == <<"i", "d", "=", "a", " ", "c">>
HrefParamPool == <<pZapas, pDiscipline, pID>>
HrefParams == {HrefParamPool[i] : i \in 1..Len(HrefParamPool)}

RECURSIVE JoinQuery(_)
JoinQuery(ps) ==
    IF ps = <<>> THEN <<>>
    ELSE IF Len(ps) = 1 THEN ps[1]
    ELSE ps[1] \o <<"&">> \o JoinQuery(Tail(ps))

HrefQueries ==
    {IF ps = <<>> THEN <<>> ELSE <<"?">> \o JoinQuery(ps) :
        ps \in UNION {[1..n -> HrefParams] : n \in 0..MaxParams}}

ISHrefs == {p \o t \o q : p \in HrefPrefixes, t \in HrefPaths, q \in HrefQueries}

ResolveISURL ==
    /\ rowOut.status = "pending"
    /\ \E url \in {resolveISURL(rowIn.href)} :
          rowOut' = [status |-> "resolved", url |-> url]
    /\ UNCHANGED <<rowIn, clubCtx, logoCache, gor, mapAcc, resolved, fatal, req>>

URLInit ==
    /\ rowIn \in {[src |-> "ishref", href |-> h] : h \in ISHrefs}
    /\ clubCtx = <<>>
    /\ rowOut = RowPending
    /\ logoCache = <<>>
    /\ gor = <<>>
    /\ mapAcc = <<>>
    /\ resolved = {}
    /\ fatal = FALSE
    /\ req = IdleReq

URLNext == ResolveISURL

URLSpec == URLInit /\ [][URLNext]_vars

(***************************************************************************)
(* The rewritten link as the specification words it                        *)
(***************************************************************************)
LinkResolved == rowOut.status = "resolved"

\* the rewritten link read as a URL
OutURL == ParseURL(rowOut.url)

\* the query parameters the href holds: the text after its first "?"
InParams ==
    LET cut == CutBefore(rowIn.href, {"?"})
    IN  IF cut.rest = <<>> THEN <<>> ELSE ParseQuery(Tail(cut.rest))

OutParams == ParseQuery(OutURL.rawQuery)

ParamSet(params) == {params[i] : i \in 1..Len(params)}

CanonicalHost ==
    /\ OutURL.scheme = <<"h", "t", "t", "p", "s">>
    /\ OutURL.host = tISHost

NoDisciplineParam == \A p \in ParamSet(OutParams) : p.key # tDiscipline

OtherParamsKept ==
    \A p \in ParamSet(InParams) : p.key # tDiscipline => p \in ParamSet(OutParams)

IsAbsolute == HasPrefix(TrimSpace(rowIn.href), tHttp) \/ HasPrefix(TrimSpace(rowIn.href), tHttps)

\* an absolute href that url.Parse accepts is moved to the canonical host
\* without its discipline parameter and with its other parameters
C19_AbsoluteLinks ==
    (LinkResolved /\ IsAbsolute /\ ParseURL(TrimSpace(rowIn.href)).ok) =>
        CanonicalHost /\ NoDisciplineParam /\ OtherParamsKept

\* a relative href without a query is put under the public prefix of the
\* canonical host
C19_RelativeLinks ==
    (LinkResolved /\ ~IsAbsolute /\ InParams = <<>>) =>
        CanonicalHost /\ HasPrefix(OutURL.path, tPublic)

\* C19: for every href, absolute or relative, the rewritten link has scheme
\* https, host is.fotbal.cz, a path that starts with "/public/" and no
\* "discipline" query parameter, and every other query parameter of the href
\* is a query parameter of the rewritten link.
C19_RewrittenLink ==
    LinkResolved =>
        /\ CanonicalHost
        /\ HasPrefix(OutURL.path, tPublic)
        /\ NoDisciplineParam
        /\ OtherParamsKept

(***************************************************************************)
(* ReportSpec: the callbacks of the two adapters on rows that carry links, *)
(* under every letter case of the club type.                               *)
(***************************************************************************)
MaxLinks == 2        \* links in the last cell of an internal-system row

\* the href of a.MatchRound-match
AnchorHrefs == { <<>>, <<"/", "z", "a", "p", "a", "s", "/">> \o uuid1, <<"n", "o", "-", "i", "d", "-", "h", "e", "r", "e">> }

lReport == <<"z", "a", "p", "i", "s", "-", "o", "-", "u", "t", "k", "a", "n", "i", "-", "r", "e", "p", "o", "r", "t", ".", "a", "s", "p", "x", "?", "z", "a", "p", "a", "s", "=", "1">>
lDeleg == <<".", ".", "/", "z", "a", "p", "a", "s", "y", "/", "z", "a", "p", "a", "s", "-", "d", "e", "l", "e", "g", "a", "c", "e", "-", "r", "e", "p", "o", "r", "t", ".", "a", "s", "p", "x", "?", "z", "a", "p", "a", "s", "=", "2">>
lDetail == <<"d", "e", "t", "a", "i", "l", ".", "a", "s", "p", "x", "?", "z", "a", "p", "a", "s", "=", "3">>
lReportAbs == <<"h", "t", "t", "p", "s", ":", "/", "/", "i", "s", ".", "f", "o", "t", "b", "a", "l", ".", "c", "z", "/", "z", "a", "p", "a", "s", "y", "/", "z", "a", "p", "i", "s", "-", "o", "-", "u", "t", "k", "a", "n", "i", "-", "r", "e", "p", "o", "r", "t", ".", "a", "s", "p", "x", "?", "d", "i", "s", "c", "i", "p", "l", "i", "n", "e", "=", "a">>
lBlank == <<" ">>
lOther == <<"x", ".", "a", "s", "p", "x">>
LinkPool == <<lReport, lDeleg, lDetail, lReportAbs, lBlank, lOther>>
LinkHrefs == {LinkPool[i] : i \in 1..Len(LinkPool)}

ReportFotbalRows ==
    [src : {"fotbal"}, anchor : {TRUE}, href : AnchorHrefs,
     spans : {<<nMost, nBrno>>, <<nBrno, nZlin>>}, imgs : {<<idX, idY>>}]

ReportISRows ==
    [src : {"is"}, th : {FALSE}, ntd : {MinISCells},
     home : {nMost}, away : {nBrno}, homeHref : {idX}, awayHref : {idY},
     links : UNION {[1..n -> LinkHrefs] : n \in 0..MaxLinks}]

ReportContexts ==
    [clubType : {tFootball, tFutsal, <<"F", "u", "t", "s", "a", "l">>}, clubName : {<<>>, nMost}, clubID : {NoID}]

ReportInit ==
    /\ rowIn \in ReportFotbalRows \cup ReportISRows
    /\ clubCtx \in ReportContexts
    /\ rowOut = RowPending
    /\ logoCache = <<>>
    /\ gor = <<>>
    /\ mapAcc = <<>>
    /\ resolved = {}
    /\ fatal = FALSE
    /\ req = IdleReq

ReportNext == FotbalRowCallback \/ ISRowCallback

ReportSpec == ReportInit /\ [][ReportNext]_vars

(***************************************************************************)
(* The report and delegation URLs as the specification words them          *)
(***************************************************************************)
\* the template URL of a match identifier under the club type of the context
TemplateURL(matchID) ==
    (IF ToLower(clubCtx.clubType) = tFutsal THEN tFutsalReport ELSE tFootballReport)
    \o matchID

\* the links of the last cell whose href holds the marker
MarkedLinks(marker) ==
    {TrimSpace(rowIn.links[i]) : i \in {j \in 1..Len(rowIn.links) :
                                          Contains(rowIn.links[j], marker)}}

Rewritten(links) == {resolveISURL(l) : l \in links}

\* C18: in adapter A the report URL is non-empty exactly when the match
\* identifier is, and is then the futsal template when the club type is
\* "futsal" in any letter case and the football template otherwise; in adapter
\* B the report URL is the rewritten report link when the last cell holds one,
\* else the template URL when a match identifier was found, else empty, and
\* the delegation URL is the rewritten delegation link or empty.
C18_ReportURL ==
    RowKept =>
        IF rowIn.src = "fotbal"
        THEN /\ rowOut.match.ReportURL # <<>> <=> rowOut.match.MatchID # <<>>
             /\ rowOut.match.MatchID # <<>> =>
                    rowOut.match.ReportURL = TemplateURL(rowOut.match.MatchID)
        ELSE /\ IF MarkedLinks(tReportMarker) # {}
                THEN rowOut.match.ReportURL \in Rewritten(MarkedLinks(tReportMarker))
                ELSE IF rowOut.match.MatchID # <<>>
                     THEN rowOut.match.ReportURL = TemplateURL(rowOut.match.MatchID)
                     ELSE rowOut.match.ReportURL = <<>>
             /\ IF MarkedLinks(tDelegMarker) # {}
                THEN rowOut.match.DelegationURL \in Rewritten(MarkedLinks(tDelegMarker))
                ELSE rowOut.match.DelegationURL = <<>>

\* adapter B kept a row with a match identifier and a report link, and the
\* report URL is the rewritten link, not the template
C18_Witness ==
    /\ RowKept
    /\ rowIn.src = "is"
    /\ rowIn.links = <<lDetail, lReport>>
    /\ clubCtx.clubType = <<"F", "u", "t", "s", "a", "l">>
    /\ rowOut.match.MatchID = <<"1">>
    /\ rowOut.match.ReportURL = resolveISURL(lReport)
    /\ rowOut.match.ReportURL # TemplateURL(rowOut.match.MatchID)

(***************************************************************************)
(* Logo resolution never fails upward (LogoSpec)                           *)
(***************************************************************************)
\* C11: whatever the team name, the team id, the cache and the answers of
\* the directory (results, empty list, failed search), a getLogo call that
\* returns gives a non-empty URL, and gives exactly the placeholder when
\* the name-based resolution ended with no logo.
C11_NeverFailsUpward ==
    \A g \in Goroutines :
        Returned(g) =>
            /\ gor[g].url # <<>>
            /\ (gor[g].path = "bySearch" /\ gor[g].ret = NoLogo) => gor[g].url = Placeholder

\* both searches were issued, the second failed or found nothing, and the
\* call returned the placeholder
C11_Witness ==
    \E g \in Goroutines :
        /\ Returned(g)
        /\ gor[g].path = "bySearch"
        /\ gor[g].nSearch = 2
        /\ gor[g].ret = NoLogo
        /\ gor[g].url = Placeholder

(***************************************************************************)
(* Score normalization (ScoreSpec)                                         *)
(***************************************************************************)
Scored == rowOut.status = "scored"

\* the text holds two groups of digits with a colon between them, white
\* space allowed around the colon
HasScorePattern(t) ==
    \E i \in 1..Len(t), c \in 1..Len(t), j \in 1..Len(t) :
        /\ i < c /\ c < j
        /\ t[i] \in ScoreDigits /\ t[c] = ":" /\ t[j] \in ScoreDigits
        /\ \A k \in (i + 1)..(c - 1) : t[k] = " "
        /\ \A k \in (c + 1)..(j - 1) : t[k] = " "

\* digits, one colon, digits, and nothing else
IsPlainScore(s) ==
    \E c \in 2..(Len(s) - 1) :
        /\ s[c] = ":"
        /\ \A k \in (1..Len(s)) \ {c} : s[k] \in ScoreDigits

\* C12, first part: a text with the pattern is emitted as digits, colon,
\* digits with no white space, at each of the three places.
C12_PatternEmitted == (Scored /\ HasScorePattern(rowIn.text)) => IsPlainScore(rowOut.score)

\* C12, last part: normalizing an emitted score gives it back unchanged.
C12_Idempotent == Scored => rowOut.again = rowOut.score

\* C12: at each of the three places a text with the pattern is emitted as
\* "<int1>:<int2>", a text without it is emitted as the empty string, and
\* normalizing an emitted score returns it unchanged.
C12_ScoreNormalized ==
    Scored =>
        /\ HasScorePattern(rowIn.text) => IsPlainScore(rowOut.score)
        /\ ~HasScorePattern(rowIn.text) => rowOut.score = <<>>
        /\ rowOut.again = rowOut.score

(***************************************************************************)
(* Backfill completeness (RowSpec)                                         *)
(***************************************************************************)
BothIDsAbsent == rowOut.fields.homeID = NoID /\ rowOut.fields.awayID = NoID

FullContext == clubCtx.clubID # <<>> /\ clubCtx.clubName # <<>>

Admits(team) == NameMatches(team) \/ TokenMatches(team)

\* C20: under a club context with club_id and club_name, a row retained by
\* either adapter whose two identifiers were absent in the document carries
\* club_id on at least one side, namely on every side whose name admitted the
\* row.
C20_BackfillComplete ==
    (RowKept /\ FullContext /\ BothIDsAbsent) =>
        /\ rowOut.match.HomeID = clubCtx.clubID \/ rowOut.match.AwayID = clubCtx.clubID
        /\ Admits(rowOut.fields.home) => rowOut.match.HomeID = clubCtx.clubID
        /\ Admits(rowOut.fields.away) => rowOut.match.AwayID = clubCtx.clubID

\* adapter A retained a row without identifiers by the token of the club
\* name alone, and its home side received the club's identifier
C20_Witness ==
    /\ RowKept /\ FullContext /\ BothIDsAbsent
    /\ rowIn.src = "fotbal"
    /\ ~NameMatches(rowOut.fields.home) /\ TokenMatches(rowOut.fields.home)
    /\ ~Admits(rowOut.fields.away)
    /\ rowOut.match.HomeID = clubCtx.clubID
    /\ rowOut.match.AwayID = NoID

(***************************************************************************)
(* Shape and growth of the logo cache (LogoSpec)                           *)
(***************************************************************************)
KeysShaped ==
    \A k \in DOMAIN logoCache : k # <<>> /\ k = ToLower(TrimSpace(k))

\* a goroutine whose call met no other call and that went on past the map
\* read found no entry, and there is still none
AloneMissMeansAbsent ==
    \A g \in Goroutines :
        (~gor[g].overlap /\ gor[g].pc \in {"search1", "search2", "select", "writing"}) =>
            CacheKey(gor[g].teamName) \notin DOMAIN logoCache

\* the step is the map write of g, after a search whose results went through
\* the selection
WrittenBy(g) ==
    /\ gor[g].pc = "writing"
    /\ gor[g].path = "bySearch"
    /\ gor[g].nSearch >= 1
    /\ gor[g].best = PickBest(gor[g].payload, gor[g].teamName, CacheKey(gor[g].teamName))
    /\ DOMAIN logoCache' = DOMAIN logoCache \cup {CacheKey(gor[g].teamName)}
    /\ logoCache'[CacheKey(gor[g].teamName)] = gor[g].best
    /\ \A k \in DOMAIN logoCache \ {CacheKey(gor[g].teamName)} : logoCache'[k] = logoCache[k]

\* the step replaced the value of an entry by a different one
Overwrites(g) ==
    /\ CacheKey(gor[g].teamName) \in DOMAIN logoCache
    /\ logoCache'[CacheKey(gor[g].teamName)] # logoCache[CacheKey(gor[g].teamName)]

CacheStep ==
    /\ DOMAIN logoCache \subseteq DOMAIN logoCache'
    /\ logoCache' # logoCache =>
          \E g \in Goroutines : WrittenBy(g) /\ (Overwrites(g) => gor[g].overlap)
    /\ \A g \in Goroutines :
          (gor[g].pc = "writing" /\ gor'[g].pc = "back" /\ ~gor[g].overlap) =>
              CacheKey(gor[g].teamName) \notin DOMAIN logoCache

\* C21: every cache key is non-empty and is its own lower-cased, trimmed form;
\* an entry is added only by a name-based search that reached the selection,
\* no entry is removed, and a call that met no other call never replaces an
\* entry: with the entry there it returns it before any write.
C21_CacheMonotone ==
    [](KeysShaped /\ AloneMissMeansAbsent) /\ [][CacheStep]_vars

\* a call that began after the entry of its key was written, and met no other
\* call, returned the entry without a search
C21_Witness ==
    \E g \in Goroutines :
        /\ Returned(g)
        /\ gor[g].late /\ ~gor[g].overlap
        /\ gor[g].teamName = <<" ">> \o nMostUpper
        /\ CacheKey(gor[g].teamName) \in DOMAIN logoCache
        /\ gor[g].nSearch = 0
        /\ gor[g].url = logoCache[CacheKey(gor[g].teamName)]
        /\ gor[g].url # Placeholder

(***************************************************************************)
(* The retry of the search handler (Spec)                                  *)
(***************************************************************************)
SearchRequest == req.pc # "idle" /\ req.handler = "search" /\ TrimSpace(req.q) # <<>>

HasShortWord(q) == \E k \in 1..Len(Fields(q)) : Len(Fields(q)[k]) <= 2

Quoted(q) == <<"dquote">> \o q \o <<"dquote">>

Retried == req.fetches = 2 \/ req.pc = "searchRetry"

\* C22: a search request with a non-blank q makes at most two upstream
\* requests, the second only after a non-200 answer to the first and with the
\* whole query quoted when a word of it has at most 2 characters; a second
\* non-200 answer gives a 200 response with count 0 and no results; in every
\* 200 response count is the number of results.
C22_SearchRetry ==
    SearchRequest =>
        /\ req.fetches <= 2
        /\ Retried => req.primary.outcome = "non200"
        /\ Retried => req.q2 = IF HasShortWord(req.q) THEN Quoted(req.q) ELSE req.q
        /\ req.second = "non200" =>
              req.pc = "done" /\ req.status = 200 /\ req.count = 0 /\ req.results = <<>>
        /\ (req.pc = "done" /\ req.status = 200) => req.count = Len(req.results)

\* "fk most" was retried quoted, both answers were non-200, and the response
\* is 200 with count 0
C22_Witness ==
    /\ SearchRequest
    /\ req.pc = "done"
    /\ req.q = <<"f", "k", " ", "m", "o", "s", "t">>
    /\ req.q2 = Quoted(req.q)
    /\ req.fetches = 2
    /\ req.second = "non200"
    /\ req.status = 200 /\ req.count = 0

(***************************************************************************)
(* DecisionSpec: the code between field extraction and the append of the   *)
(* match (lines 148-191 of adapter A, lines 291-323 of adapter B) applied  *)
(* by each adapter to the same extracted fields, club context, cache and   *)
(* directory answers.                                                      *)
(***************************************************************************)
ExtractedNames == TeamNames \cup {nMostParen, <<>>}
ExtractedRows ==
    [home : ExtractedNames, away : ExtractedNames, homeID : RowIDs, awayID : RowIDs]

NoDecision == [status |-> "pending"]
RowDropped == [status |-> "dropped"]

\* lines 148-191
FotbalDecision(f, clubName, clubID, cache, oh, oa) ==
    IF ~involvedFotbal(f.home, f.away, f.homeID, f.awayID, clubName, clubID)
    THEN RowDropped
    ELSE LET homeID == backfillFotbal(f.home, f.homeID, clubName, clubID)
             awayID == backfillFotbal(f.away, f.awayID, clubName, clubID)
             homeLogo == getLogoSeq(f.home, homeID, cache, oh[1], oh[2])
             awayLogo == getLogoSeq(f.away, awayID, homeLogo.cache, oa[1], oa[2])
         IN  [status |-> "kept", HomeID |-> homeID, AwayID |-> awayID,
              HomeLogoURL |-> homeLogo.url, AwayLogoURL |-> awayLogo.url,
              cache |-> awayLogo.cache]

\* lines 291-323
ISDecision(f, clubName, clubID, cache, oh, oa) ==
    IF ~involvedIS(f.home, f.away, f.homeID, f.awayID, clubName, clubID)
    THEN RowDropped
    ELSE LET homeID == backfillIS(f.home, f.homeID, clubName, clubID)
             awayID == backfillIS(f.away, f.awayID, clubName, clubID)
             homeLogo == getLogoSeq(f.home, homeID, cache, oh[1], oh[2])
             awayLogo == getLogoSeq(f.away, awayID, homeLogo.cache, oa[1], oa[2])
         IN  [status |-> "kept", HomeID |-> homeID, AwayID |-> awayID,
              HomeLogoURL |-> homeLogo.url, AwayLogoURL |-> awayLogo.url,
              cache |-> awayLogo.cache]

FotbalDecide ==
    /\ rowOut.a = NoDecision
    /\ \E d \in {FotbalDecision(rowIn.f, clubCtx.clubName, clubCtx.clubID,
                                rowIn.cache, rowIn.oh, rowIn.oa)} :
          rowOut' = [rowOut EXCEPT !.a = d]
    /\ UNCHANGED <<rowIn, clubCtx, logoCache, gor, mapAcc, resolved, fatal, req>>

ISDecide ==
    /\ rowOut.b = NoDecision
    /\ \E d \in {ISDecision(rowIn.f, clubCtx.clubName, clubCtx.clubID,
                            rowIn.cache, rowIn.oh, rowIn.oa)} :
          rowOut' = [rowOut EXCEPT !.b = d]
    /\ UNCHANGED <<rowIn, clubCtx, logoCache, gor, mapAcc, resolved, fatal, req>>

DecisionInit ==
    /\ rowIn \in [f : ExtractedRows, cache : InitCaches, oh : RowOracles, oa : RowOracles]
    /\ clubCtx \in Contexts
    /\ rowOut = [a |-> NoDecision, b |-> NoDecision]
    /\ logoCache = <<>>
    /\ gor = <<>>
    /\ mapAcc = <<>>
    /\ resolved = {}
    /\ fatal = FALSE
    /\ req = IdleReq

DecisionNext == FotbalDecide \/ ISDecide

DecisionSpec == DecisionInit /\ [][DecisionNext]_vars

(***************************************************************************)
(* The adapters decide alike (DecisionSpec)                                *)
(***************************************************************************)
BothDecided == rowOut.a # NoDecision /\ rowOut.b # NoDecision

\* C23: on the same extracted row and the same club context the two adapters
\* take the same retain/drop decision and, for a retained row, give the same
\* home and away identifiers after backfill and the same logo URLs.
C23_AdaptersAgree == BothDecided => rowOut.a = rowOut.b

\* a row both adapters retained by the name token, with the home identifier
\* backfilled and the away logo found by search
C23_Witness ==
    /\ BothDecided
    /\ rowOut.a.status = "kept" /\ rowOut.b.status = "kept"
    /\ rowIn.f.homeID = NoID /\ rowOut.b.HomeID = idX
    /\ rowIn.f.home = nSKMostB /\ clubCtx.clubName = nFKMostZS
    /\ rowOut.a.AwayLogoURL \notin {Placeholder, <<>>}
    /\ rowIn.f.awayID = NoID /\ rowOut.a.AwayID = NoID

\* a row both adapters dropped
C23_WitnessDropped ==
    /\ BothDecided
    /\ rowOut.a.status = "dropped" /\ rowOut.b.status = "dropped"

====
